---------------------------- MODULE Spec2Model ----------------------------
(***************************************************************************)
(* A model of the softwerks/backgammon rules engine: the Position engine   *)
(* (position.py), the play generator and the match controller              *)
(* (backgammon.py) and the Match value (match.py).                         *)
(*                                                                         *)
(* Python values are represented as follows.                               *)
(*   Position  a record; board_points is a function on 0..POINTS-1, so     *)
(*             that point indices are the ones the code uses.              *)
(*   Match     a record with the twelve dataclass fields; the IntEnum      *)
(*             members are their integer values.                           *)
(*   None      the integer -1 (Optional[int] source/destination); no call  *)
(*             of the model passes -1 as a point index.                    *)
(*   tuples    sequences.                                                  *)
(*   raise     a controller operation is a function from (position, match, *)
(*             inputs) to a record [outcome, position, match]; outcome is  *)
(*             "ok" or the name of the exception class raised, and         *)
(*             position/match are the engine's fields when the call ends.  *)
(***************************************************************************)
EXTENDS Integers, Sequences, FiniteSets, TLC

VARIABLES position, match, plays, last, steps, ident

vars == <<position, match, plays, last, steps, ident>>

-----------------------------------------------------------------------------
(* Program constants                                                       *)

CHECKERS == 15
POINTS == 24
POINTS_PER_QUADRANT == POINTS \div 4

None == 0 - 1

ZERO == 0
ONE == 1
CENTERED == 3

NOT_STARTED == 0
PLAYING == 1
GAME_OVER == 2
RESIGNED == 3
DROPPED_CUBE == 4

RESIGN_NONE == 0
SINGLE_GAME == 1
GAMMON == 2
BACKGAMMON == 3

\* random.SystemRandom().randrange(1, 7)
DieFaces == 1..6

-----------------------------------------------------------------------------
(* Generic helpers                                                         *)

Max(a, b) == IF a >= b THEN a ELSE b

\* sum(f[lo], ..., f[hi]); 0 when the range is empty
RECURSIVE SumRange(_, _, _)
SumRange(f, lo, hi) == IF lo > hi THEN 0 ELSE f[lo] + SumRange(f, lo + 1, hi)

Reverse(s) == [i \in 1..Len(s) |-> s[Len(s) + 1 - i]]

-----------------------------------------------------------------------------
(* position.py                                                             *)

Position(board_points, player_bar, player_off, opponent_bar, opponent_off) ==
    [board_points |-> board_points, player_bar |-> player_bar,
     player_off |-> player_off, opponent_bar |-> opponent_bar,
     opponent_off |-> opponent_off]

\* apply_move as it would be if a hit checker were not put on the bar
apply_move_losing_hit_checker(p, source, destination) ==
    LET bp1 == IF source = None
               THEN p.board_points
               ELSE [p.board_points EXCEPT ![source] = @ - 1]
        player_bar == IF source = None THEN p.player_bar - 1 ELSE p.player_bar
        hit == destination # None /\ bp1[destination] = -1
        bp2 == IF destination = None
               THEN bp1
               ELSE IF hit
                    THEN [bp1 EXCEPT ![destination] = 1]
                    ELSE [bp1 EXCEPT ![destination] = @ + 1]
    IN  Position(bp2,
                 player_bar,
                 IF destination = None THEN p.player_off + 1 ELSE p.player_off,
                 p.opponent_bar,
                 p.opponent_off)

\* Position.apply_move: no legality check
apply_move(p, source, destination) ==
    LET bp1 == IF source = None
               THEN p.board_points
               ELSE [p.board_points EXCEPT ![source] = @ - 1]
        player_bar == IF source = None THEN p.player_bar - 1 ELSE p.player_bar
        hit == destination # None /\ bp1[destination] = -1
        bp2 == IF destination = None
               THEN bp1
               ELSE IF hit
                    THEN [bp1 EXCEPT ![destination] = 1]
                    ELSE [bp1 EXCEPT ![destination] = @ + 1]
    IN  Position(bp2,
                 player_bar,
                 IF destination = None THEN p.player_off + 1 ELSE p.player_off,
                 IF hit THEN p.opponent_bar + 1 ELSE p.opponent_bar,
                 p.opponent_off)

\* The (Optional[Position], Optional[int]) pairs returned by enter/off/move.
\* ok = FALSE is the (None, None) result; raised = TRUE is an IndexError
\* from subscripting board_points out of range.
Moved(p, destination) ==
    [ok |-> TRUE, raised |-> FALSE, position |-> p, destination |-> destination]
NoMove(p) ==
    [ok |-> FALSE, raised |-> FALSE, position |-> p, destination |-> None]
IndexRaised(p) ==
    [ok |-> FALSE, raised |-> TRUE, position |-> p, destination |-> None]

\* enter as it would be if it tested for a free point only (>= -2)
enter_onto_held_point(p, pips) ==
    LET destination == POINTS - pips
    IN  IF destination \notin 0..(POINTS - 1)
        THEN IndexRaised(p)
        ELSE IF p.board_points[destination] >= -2
             THEN Moved(apply_move(p, None, destination), destination)
             ELSE NoMove(p)

\* Position.enter
enter(p, pips) ==
    LET destination == POINTS - pips
    IN  IF destination \notin 0..(POINTS - 1)
        THEN IndexRaised(p)
        ELSE IF p.board_points[destination] >= -1
             THEN Moved(apply_move(p, None, destination), destination)
             ELSE NoMove(p)

\* Position.player_home
player_home(p) ==
    [i \in 0..(POINTS_PER_QUADRANT - 1) |->
        IF p.board_points[i] > 0 THEN p.board_points[i] ELSE 0]

\* off as it would be if a checker on a higher point always had to be
\* cleared first, also when the pips bear the checker off exactly
off_clearing_higher_points_first(p, point, pips) ==
    IF p.board_points[point] > 0
    THEN LET destination == point - pips
         IN  IF destination < 0
             THEN LET checkers_on_higher_points ==
                          SumRange(player_home(p), point + 1, POINTS_PER_QUADRANT - 1)
                  IN  IF checkers_on_higher_points = 0
                      THEN Moved(apply_move(p, point, None), None)
                      ELSE NoMove(p)
             ELSE IF p.board_points[destination] >= -1
                  THEN Moved(apply_move(p, point, destination), destination)
                  ELSE NoMove(p)
    ELSE NoMove(p)

\* off as it would be without the test of the higher points
off_ignoring_higher_points(p, point, pips) ==
    IF p.board_points[point] > 0
    THEN LET destination == point - pips
         IN  IF destination < 0
             THEN Moved(apply_move(p, point, None), None)
             ELSE IF p.board_points[destination] >= -1
                  THEN Moved(apply_move(p, point, destination), destination)
                  ELSE NoMove(p)
    ELSE NoMove(p)

\* Position.off
off(p, point, pips) ==
    IF p.board_points[point] > 0
    THEN LET destination == point - pips
         IN  IF destination < 0
             THEN LET checkers_on_higher_points ==
                          SumRange(player_home(p), point + 1, POINTS_PER_QUADRANT - 1)
                  IN  IF destination = -1 \/ checkers_on_higher_points = 0
                      THEN Moved(apply_move(p, point, None), None)
                      ELSE NoMove(p)
             ELSE IF p.board_points[destination] >= -1
                  THEN Moved(apply_move(p, point, destination), destination)
                  ELSE NoMove(p)
    ELSE NoMove(p)

\* move as it would be without the test of the destination's checkers
move_onto_held_point(p, point, pips) ==
    IF p.board_points[point] > 0
    THEN LET destination == point - pips
         IN  IF destination >= 0
             THEN Moved(apply_move(p, point, destination), destination)
             ELSE NoMove(p)
    ELSE NoMove(p)

\* move as it would be if it reported the source as the destination
move_reporting_source(p, point, pips) ==
    IF p.board_points[point] > 0
    THEN LET destination == point - pips
         IN  IF destination >= 0 /\ p.board_points[destination] >= -1
             THEN Moved(apply_move(p, point, destination), point)
             ELSE NoMove(p)
    ELSE NoMove(p)

\* Position.move
move(p, point, pips) ==
    IF p.board_points[point] > 0
    THEN LET destination == point - pips
         IN  IF destination >= 0 /\ p.board_points[destination] >= -1
             THEN Moved(apply_move(p, point, destination), destination)
             ELSE NoMove(p)
    ELSE NoMove(p)

\* swap_players as it would be if the checkers on the bar stayed with
\* their side of the record
Position_swap_players_keeping_bars(p) ==
    Position([i \in 0..(POINTS - 1) |-> 0 - p.board_points[POINTS - 1 - i]],
             p.player_bar, p.opponent_off, p.opponent_bar, p.player_off)

\* Position.swap_players
Position_swap_players(p) ==
    Position([i \in 0..(POINTS - 1) |-> 0 - p.board_points[POINTS - 1 - i]],
             p.opponent_bar, p.opponent_off, p.player_bar, p.player_off)

-----------------------------------------------------------------------------
(* The identifier codecs: base64 and bit strings                           *)
(*                                                                         *)
(* A str is a sequence of one-character strings, a bit string a sequence   *)
(* of the integers 0 and 1, bytes a sequence of integers 0..255.  A codec  *)
(* function returns [outcome, value]: outcome "ok" with the value          *)
(* returned, or the name of the exception class raised.                    *)

Returned(v) == [outcome |-> "ok", value |-> v]

Raised(error) == [outcome |-> error, value |-> << >>]

Abs(n) == IF n < 0 THEN 0 - n ELSE n

\* the base64 alphabet, in the order of the values 0..63
B64Alphabet ==
    <<"A", "B", "C", "D", "E", "F", "G", "H", "I", "J", "K", "L", "M", "N", "O", "P",
       "Q", "R", "S", "T", "U", "V", "W", "X", "Y", "Z", "a", "b", "c", "d", "e", "f",
       "g", "h", "i", "j", "k", "l", "m", "n", "o", "p", "q", "r", "s", "t", "u", "v",
       "w", "x", "y", "z", "0", "1", "2", "3", "4", "5", "6", "7", "8", "9", "+", "/">>

B64Chars == {B64Alphabet[i] : i \in 1..64}

B64Value(c) == (CHOOSE i \in 1..64 : B64Alphabet[i] = c) - 1

\* int(b, 2) of a bit string
RECURSIVE IntOfBits(_)
IntOfBits(b) ==
    IF Len(b) = 0 THEN 0
    ELSE 2 * IntOfBits(SubSeq(b, 1, Len(b) - 1)) + b[Len(b)]

\* format(v, "0{w}b")
BitsOfInt(v, w) == [i \in 1..w |-> (v \div (2 ^ (w - i))) % 2]

\* the bits of a byte string, the high bit of each byte first
BitsOfBytes(bytes) ==
    [i \in 1..(8 * Len(bytes)) |-> BitsOfInt(bytes[((i - 1) \div 8) + 1], 8)[((i - 1) % 8) + 1]]

\* base64.b64encode(bytes).decode(): six bits a character, the last group
\* filled with zero bits, "=" up to a multiple of four characters
b64encode(bytes) ==
    LET bits == BitsOfBytes(bytes)
        groups == (Len(bits) + 5) \div 6
        padded == [i \in 1..(6 * groups) |-> IF i <= Len(bits) THEN bits[i] ELSE 0]
        chars == [g \in 1..groups |->
                     B64Alphabet[IntOfBits(SubSeq(padded, 6 * (g - 1) + 1, 6 * g)) + 1]]
    IN  chars \o [i \in 1..((3 - (Len(bytes) % 3)) % 3) |-> "="]

\* base64.b64decode(s + "==") for s without "=": characters outside the
\* alphabet are discarded; n data characters give the first 6n div 8 bytes of
\* their bits (bits left over are dropped), and binascii.Error when n is one
\* more than a multiple of four
b64decode_padded(s) ==
    LET data == SelectSeq(s, LAMBDA c : c \in B64Chars)
        values == [j \in 1..Len(data) |-> B64Value(data[j])]
        bits == [i \in 1..(6 * Len(data)) |->
                    BitsOfInt(values[((i - 1) \div 6) + 1], 6)[((i - 1) % 6) + 1]]
    IN  IF Len(data) % 4 = 1
        THEN Raised("binascii.Error")
        ELSE Returned([k \in 1..((6 * Len(data)) \div 8) |->
                          IntOfBits(SubSeq(bits, 8 * (k - 1) + 1, 8 * k))])

-----------------------------------------------------------------------------
(* position.py: the Position ID                                            *)

\* _unmerge_points: <<player, opponent>>, each from its own ace point
unmerge_points(board_points) ==
    << [i \in 1..POINTS |-> IF board_points[i - 1] < 0 THEN 0 ELSE board_points[i - 1]],
       [i \in 1..POINTS |-> IF board_points[POINTS - i] > 0 THEN 0
                            ELSE 0 - board_points[POINTS - i]] >>

\* "".join("1" * n + "0" for n in checkers[lo..hi])
RECURSIVE key_runs(_, _, _)
key_runs(checkers, lo, hi) ==
    IF lo > hi THEN << >>
    ELSE IF lo = hi
         THEN [i \in 1..(Max(checkers[lo], 0) + 1) |-> IF i <= checkers[lo] THEN 1 ELSE 0]
         ELSE key_runs(checkers, lo, (lo + hi) \div 2)
                  \o key_runs(checkers, ((lo + hi) \div 2) + 1, hi)

\* _key_from_checkers: ljust(80, "0") fills a shorter key and leaves a longer
\* one as it is
key_from_checkers(checkers) ==
    LET key == key_runs(checkers, 1, Len(checkers))
    IN  key \o [i \in 1..(80 - Len(key)) |-> 0]

\* _id_from_key as it would be without the reversal of the bits of a byte
id_from_key_unreversed(position_key) ==
    LET n == (Len(position_key) + 7) \div 8
        position_bytes == [k \in 1..n |->
            IntOfBits(SubSeq(position_key, 8 * (k - 1) + 1,
                             IF 8 * k <= Len(position_key) THEN 8 * k
                             ELSE Len(position_key)))]
    IN  IF n # 10
        THEN Raised("struct.error")
        ELSE Returned(SubSeq(b64encode(position_bytes), 1,
                             Len(b64encode(position_bytes)) - 2))

\* _id_from_key: the key in groups of eight bits, each reversed and read as
\* an integer; struct.pack("10B", ...) takes exactly ten of them
id_from_key(position_key) ==
    LET n == (Len(position_key) + 7) \div 8
        position_bytes == [k \in 1..n |->
            IntOfBits(Reverse(SubSeq(position_key, 8 * (k - 1) + 1,
                                     IF 8 * k <= Len(position_key) THEN 8 * k
                                     ELSE Len(position_key))))]
    IN  IF n # 10
        THEN Raised("struct.error")
        ELSE Returned(SubSeq(b64encode(position_bytes), 1,
                             Len(b64encode(position_bytes)) - 2))

\* the checkers tuple of Position.encode
encode_checkers(p) ==
    LET points == unmerge_points(p.board_points)
    IN  points[2] \o <<p.opponent_bar>> \o points[1] \o <<p.player_bar>>

\* Position.encode
Position_encode(p) == id_from_key(key_from_checkers(encode_checkers(p)))

\* _key_from_id
key_from_id(position_id) ==
    LET decoded == b64decode_padded(position_id)
        position_bytes == decoded.value
    IN  IF decoded.outcome # "ok" THEN decoded
        ELSE Returned([i \in 1..(8 * Len(position_bytes)) |->
                 BitsOfInt(position_bytes[((i - 1) \div 8) + 1], 8)[8 - ((i - 1) % 8)]])

\* the number of "0" in key[1..i], for i in 0..Len(key)
ZeroCounts(key) ==
    [i \in 0..Len(key) |-> Cardinality({j \in 1..i : key[j] = 0})]

\* the index of the k-th "0" of the key; 0 for k = 0, Len(key) + 1 past the
\* last one
ZeroIndex(key, zeros, k) ==
    IF k = 0 THEN 0
    ELSE IF k > zeros[Len(key)] THEN Len(key) + 1
    ELSE CHOOSE i \in 1..Len(key) : key[i] = 0 /\ zeros[i] = k

\* the pieces of key.split("0")[:50], each summed: a piece is the run of "1"
\* between two "0", or from the last "0" to the end
split_sums(key, zeros) ==
    LET pieces == zeros[Len(key)] + 1
    IN  [k \in 1..(IF pieces < 50 THEN pieces ELSE 50) |->
            ZeroIndex(key, zeros, k) - ZeroIndex(key, zeros, k - 1) - 1]

\* _checkers_from_key
checkers_from_key(position_key) == split_sums(position_key, ZeroCounts(position_key))

\* _merge_points
merge_points(player, opponent) ==
    [i \in 0..(POINTS - 1) |-> player[i + 1] - opponent[POINTS - i]]

\* sum of a tuple of integers
SumSeq(s) == SumRange(s, 1, Len(s))

\* decode, from the checkers tuple on; checkers[49] raises IndexError on a
\* tuple of fewer than 50
position_from_checkers(checkers) ==
    IF Len(checkers) < 50
    THEN Raised("IndexError")
    ELSE LET player_points == SubSeq(checkers, 26, 49)
             opponent_points == SubSeq(checkers, 1, 24)
             player_bar == checkers[50]
             opponent_bar == checkers[25]
         IN  Returned(Position(merge_points(player_points, opponent_points),
                               player_bar,
                               Abs(CHECKERS - SumSeq(player_points) - player_bar),
                               opponent_bar,
                               Abs(CHECKERS - SumSeq(opponent_points) - Abs(opponent_bar))))

\* position.decode
Position_decode(position_id) ==
    LET key == key_from_id(position_id)
    IN  IF key.outcome # "ok" THEN key
        ELSE position_from_checkers(checkers_from_key(key.value))

-----------------------------------------------------------------------------
(* backgammon.py: the play generator                                       *)

Move(pips, source, destination) ==
    [pips |-> pips, source |-> source, destination |-> destination]

Play(moves, p) == [moves |-> moves, position |-> p]

\* An IndexError raised inside generate aborts generate_plays.  It is carried
\* to the caller as a Play with no moves; generate itself never appends one
\* (it appends only when len(moves) > 0).
RaisedPlay(p) == Play(<< >>, p)

\* the mode as it would be if the bar were not looked at
MoveStateOf_ignoring_bar(p) ==
    IF SumRange(player_home(p), 0, POINTS_PER_QUADRANT - 1) + p.player_off = CHECKERS
    THEN "BEAR_OFF"
    ELSE "DEFAULT"

MoveStateOf(p) ==
    IF p.player_bar > 0 THEN "ENTER_FROM_BAR"
    ELSE IF SumRange(player_home(p), 0, POINTS_PER_QUADRANT - 1) + p.player_off = CHECKERS
         THEN "BEAR_OFF"
         ELSE "DEFAULT"

\* generate (nested in generate_plays): the plays appended by one call, in
\* the order they are appended: the recursive calls point by point, then the
\* play of this call.  dice is a sequence, so dice[die] of the code is
\* dice[die + 1] here.  try_points is the for loop over the points
\* point..last_point, trying Position.off in the BEAR_OFF state and
\* Position.move in the DEFAULT state; it walks the range by halves, left
\* half first, which is the loop's order.
RECURSIVE generate(_, _, _, _)
RECURSIVE try_points(_, _, _, _, _, _, _)

try_points(p, dice, die, moves, state, point, last_point) ==
    IF point > last_point THEN << >>
    ELSE IF point = last_point
    THEN LET pips == dice[die + 1]
             r == IF state = "BEAR_OFF" THEN off(p, point, pips)
                                         ELSE move(p, point, pips)
         IN  IF r.ok
             THEN generate(r.position, dice, die + 1,
                           Append(moves, Move(pips, point, r.destination)))
             ELSE << >>
    ELSE LET middle == (point + last_point) \div 2
         IN  try_points(p, dice, die, moves, state, point, middle)
             \o try_points(p, dice, die, moves, state, middle + 1, last_point)

generate(p, dice, die, moves) ==
    LET pips == dice[die + 1]
        state == MoveStateOf(p)
        entered == enter(p, pips)
        deeper ==
            IF die < Len(dice)
            THEN IF state = "ENTER_FROM_BAR"
                 THEN IF entered.raised THEN << RaisedPlay(p) >>
                      ELSE IF entered.ok
                           THEN generate(entered.position, dice, die + 1,
                                    Append(moves, Move(pips, None, entered.destination)))
                           ELSE << >>
                 ELSE IF state = "BEAR_OFF"
                      THEN try_points(p, dice, die, moves, state,
                                      0, POINTS_PER_QUADRANT - 1)
                      ELSE try_points(p, dice, die, moves, state, 0, POINTS - 1)
            ELSE << >>
    IN  deeper \o (IF Len(moves) > 0 THEN << Play(moves, p) >> ELSE << >>)

\* raw_plays as it would be if every roll were played as a double
raw_plays_doubling_every_roll(p, match_dice) ==
    LET doubles == match_dice[1] = match_dice[2]
        dice == match_dice \o match_dice
    IN  IF doubles
        THEN generate(p, dice, 0, << >>)
        ELSE LET shared == generate(p, dice, 0, << >>)
                           \o generate(p, Reverse(dice), 0, << >>)
             IN  shared \o shared

\* The list `plays` after lines 130-135.  generate's default argument
\* plays=[] is one list per generate_plays call, so for a non-double roll the
\* second generate call appends to the list the first one returned and
\* `plays += ...` then extends that list by itself.
raw_plays(p, match_dice) ==
    LET doubles == match_dice[1] = match_dice[2]
        dice == IF doubles THEN match_dice \o match_dice ELSE match_dice
    IN  IF doubles
        THEN generate(p, dice, 0, << >>)
        ELSE LET shared == generate(p, dice, 0, << >>)
                           \o generate(p, Reverse(dice), 0, << >>)
             IN  shared \o shared

\* generate_plays raises (IndexError) instead of returning; raw is
\* raw_plays(p, match_dice)
raises_in(raw) == \E i \in 1..Len(raw) : Len(raw[i].moves) = 0

generate_plays_raises(p, match_dice) == raises_in(raw_plays(p, match_dice))

\* CPython: hash(n) = n for a small int, except hash(-1) = -2
PyHashInt(n) == IF n = -1 THEN -2 ELSE n

\* hash(p.position): the dataclass hashes the tuple of its fields, a tuple
\* hashes the hashes of its items.  The mixing of the item hashes is taken
\* to be injective; the item hashes are modelled exactly.
HashKey(p) ==
    << [i \in 0..(POINTS - 1) |-> PyHashInt(p.board_points[i])],
       PyHashInt(p.player_bar), PyHashInt(p.player_off),
       PyHashInt(p.opponent_bar), PyHashInt(p.opponent_off) >>

\* sorted(plays, key) then the first play of every groupby(key) group: the
\* sort is stable, so a group's first play is the first play of the list
\* with that key.  The order of the groups (by hash value) is not modelled:
\* the result lists them in order of first appearance.
Ascending(S) ==
    [n \in 1..Cardinality(S) |->
        CHOOSE x \in S : Cardinality({y \in S : y < x}) = n - 1]

\* the deduplication left out
FirstPerKey_keeping_all(ps) == ps

FirstPerKey(ps) ==
    LET keys == [i \in 1..Len(ps) |-> HashKey(ps[i].position)]
        K == {keys[i] : i \in 1..Len(ps)}
        first(k) == CHOOSE i \in 1..Len(ps) :
                        keys[i] = k /\ \A j \in 1..(i - 1) : keys[j] # k
        order == Ascending({first(k) : k \in K})
    IN  [n \in 1..Len(order) |-> ps[order[n]]]

MaxOf(S) == CHOOSE m \in S : \A n \in S : m >= n

IsHigherPlay(pl, max_pips) == pl.moves[1].pips = max_pips

HasMaxMoves(pl, max_moves) == Len(pl.moves) = max_moves

\* the reduction as it would be without the filter on the number of moves
reduce_plays_keeping_shorter(ps, match_dice) ==
    IF Len(ps) = 0 THEN ps
    ELSE LET max_moves == MaxOf({Len(ps[i].moves) : i \in 1..Len(ps)})
         IN  IF max_moves = 1
             THEN LET max_pips == Max(match_dice[1], match_dice[2])
                      IsHigher(pl) == IsHigherPlay(pl, max_pips)
                      higher_plays == SelectSeq(ps, IsHigher)
                  IN  IF Len(higher_plays) > 0 THEN higher_plays ELSE ps
             ELSE ps

\* the reduction as it would be without the filter on the higher die
reduce_plays_keeping_lower_die(ps, match_dice) ==
    IF Len(ps) = 0 THEN ps
    ELSE LET max_moves == MaxOf({Len(ps[i].moves) : i \in 1..Len(ps)})
         IN  IF max_moves = 1
             THEN ps
             ELSE LET IsMax(pl) == HasMaxMoves(pl, max_moves)
                  IN  SelectSeq(ps, IsMax)

\* lines 137-147: the mandatory-play reduction
reduce_plays(ps, match_dice) ==
    IF Len(ps) = 0 THEN ps
    ELSE LET max_moves == MaxOf({Len(ps[i].moves) : i \in 1..Len(ps)})
         IN  IF max_moves = 1
             THEN LET max_pips == Max(match_dice[1], match_dice[2])
                      IsHigher(pl) == IsHigherPlay(pl, max_pips)
                      higher_plays == SelectSeq(ps, IsHigher)
                  IN  IF Len(higher_plays) > 0 THEN higher_plays ELSE ps
             ELSE LET IsMax(pl) == HasMaxMoves(pl, max_moves)
                  IN  SelectSeq(ps, IsMax)

\* lines 137-158: what generate_plays returns for the list raw of lines
\* 130-135
returned_plays(raw, match_dice) == FirstPerKey(reduce_plays(raw, match_dice))

\* Backgammon.generate_plays (when it returns)
generate_plays(p, match_dice) ==
    returned_plays(raw_plays(p, match_dice), match_dice)

-----------------------------------------------------------------------------
(* match.py                                                                *)

\* Match.swap_players
Match_swap_players(m) ==
    LET other == IF m.player = ONE THEN ZERO ELSE ONE
    IN  [m EXCEPT !.player = other, !.turn = other]

\* Match.swap_turn
swap_turn(m) == [m EXCEPT !.turn = IF m.turn = ONE THEN ZERO ELSE ONE]

\* Match.reset_dice
reset_dice(m) == [m EXCEPT !.dice = <<0, 0>>]

\* Match.reset_cube
reset_cube(m) == [m EXCEPT !.cube_holder = CENTERED, !.cube_value = 1]

\* drop_cube as it would be if the points went to the player who has the turn
\* (the player rejecting the double)
drop_cube_crediting_turn(m) ==
    LET m1 == IF m.turn = ZERO
              THEN [m EXCEPT !.player_0_score = @ + m.cube_value]
              ELSE [m EXCEPT !.player_1_score = @ + m.cube_value]
        m2 == [m1 EXCEPT !.double = FALSE]
    IN  IF m2.player_0_score >= m2.length \/ m2.player_1_score >= m2.length
        THEN [m2 EXCEPT !.game_state = DROPPED_CUBE]
        ELSE m2

\* Match.drop_cube
drop_cube(m) ==
    LET m1 == IF m.player = ZERO
              THEN [m EXCEPT !.player_0_score = @ + m.cube_value]
              ELSE [m EXCEPT !.player_1_score = @ + m.cube_value]
        m2 == [m1 EXCEPT !.double = FALSE]
    IN  IF m2.player_0_score >= m2.length \/ m2.player_1_score >= m2.length
        THEN [m2 EXCEPT !.game_state = DROPPED_CUBE]
        ELSE m2

\* update_score as it would be without the reset of crawford at its start
update_score_keeping_crawford(m, multiplier) ==
    LET points == m.cube_value * multiplier
        m2 == IF m.turn = ZERO
              THEN LET a == [m EXCEPT !.player_0_score = @ + points]
                   IN  IF a.length - a.player_0_score = 1
                          /\ a.length - a.player_1_score > 1
                       THEN [a EXCEPT !.crawford = TRUE]
                       ELSE a
              ELSE LET a == [m EXCEPT !.player_1_score = @ + points]
                   IN  IF a.length - a.player_1_score = 1
                          /\ a.length - a.player_0_score > 1
                       THEN [a EXCEPT !.crawford = TRUE]
                       ELSE a
        m3 == [m2 EXCEPT !.double = FALSE]
    IN  IF m3.player_0_score >= m3.length \/ m3.player_1_score >= m3.length
        THEN [m3 EXCEPT !.game_state = GAME_OVER]
        ELSE m3

\* update_score as it would be if it looked at the winner's score only
update_score_ignoring_opponent(m, multiplier) ==
    LET points == m.cube_value * multiplier
        m1 == [m EXCEPT !.crawford = FALSE]
        m2 == IF m1.turn = ZERO
              THEN LET a == [m1 EXCEPT !.player_0_score = @ + points]
                   IN  IF a.length - a.player_0_score = 1
                       THEN [a EXCEPT !.crawford = TRUE]
                       ELSE a
              ELSE LET a == [m1 EXCEPT !.player_1_score = @ + points]
                   IN  IF a.length - a.player_1_score = 1
                       THEN [a EXCEPT !.crawford = TRUE]
                       ELSE a
        m3 == [m2 EXCEPT !.double = FALSE]
    IN  IF m3.player_0_score >= m3.length \/ m3.player_1_score >= m3.length
        THEN [m3 EXCEPT !.game_state = GAME_OVER]
        ELSE m3

\* Match.update_score
update_score(m, multiplier) ==
    LET points == m.cube_value * multiplier
        m1 == [m EXCEPT !.crawford = FALSE]
        m2 == IF m1.turn = ZERO
              THEN LET a == [m1 EXCEPT !.player_0_score = @ + points]
                   IN  IF a.length - a.player_0_score = 1
                          /\ a.length - a.player_1_score > 1
                       THEN [a EXCEPT !.crawford = TRUE]
                       ELSE a
              ELSE LET a == [m1 EXCEPT !.player_1_score = @ + points]
                   IN  IF a.length - a.player_1_score = 1
                          /\ a.length - a.player_0_score > 1
                       THEN [a EXCEPT !.crawford = TRUE]
                       ELSE a
        m3 == [m2 EXCEPT !.double = FALSE]
    IN  IF m3.player_0_score >= m3.length \/ m3.player_1_score >= m3.length
        THEN [m3 EXCEPT !.game_state = GAME_OVER]
        ELSE m3

-----------------------------------------------------------------------------
(* match.py: the Match ID                                                  *)

\* the number of binary digits of v >= 0
RECURSIVE BitLen(_)
BitLen(v) == IF v < 2 THEN 1 ELSE 1 + BitLen(v \div 2)

\* format(v, "0{w}b"): at least w digits, more when v does not fit in w
format_b(v, w) == BitsOfInt(v, Max(w, BitLen(v)))

\* int(math.log(cube_value, 2)): the exponent of a power of two (the float
\* quotient is exact for 2^0 .. 2^15), the whole part of the logarithm
\* otherwise
int_log2(cube_value) == BitLen(cube_value) - 1

\* the match key of Match.encode as it would be with every field written
\* high bit first
match_key_high_bit_first(m) ==
    format_b(int_log2(m.cube_value), 4)
        \o format_b(m.cube_holder, 2)
        \o format_b(m.player, 1)
        \o format_b(IF m.crawford THEN 1 ELSE 0, 1)
        \o format_b(m.game_state, 3)
        \o format_b(m.turn, 1)
        \o format_b(IF m.double THEN 1 ELSE 0, 1)
        \o format_b(m.resign, 2)
        \o format_b(m.dice[1], 3)
        \o format_b(m.dice[2], 3)
        \o format_b(m.length, 15)
        \o format_b(m.player_0_score, 15)
        \o format_b(m.player_1_score, 15)

\* the match key of Match.encode: the fields in order, each of more than one
\* bit written low bit first
match_key(m) ==
    Reverse(format_b(int_log2(m.cube_value), 4))
        \o Reverse(format_b(m.cube_holder, 2))
        \o format_b(m.player, 1)
        \o format_b(IF m.crawford THEN 1 ELSE 0, 1)
        \o Reverse(format_b(m.game_state, 3))
        \o format_b(m.turn, 1)
        \o format_b(IF m.double THEN 1 ELSE 0, 1)
        \o Reverse(format_b(m.resign, 2))
        \o Reverse(format_b(m.dice[1], 3))
        \o Reverse(format_b(m.dice[2], 3))
        \o Reverse(format_b(m.length, 15))
        \o Reverse(format_b(m.player_0_score, 15))
        \o Reverse(format_b(m.player_1_score, 15))

\* Match.encode: math.log raises ValueError for a cube_value that is not
\* positive; the key in groups of eight bits (the last one shorter), each
\* reversed and read as an integer; struct.pack("9B", ...) takes exactly
\* nine of them; nothing is cut from the base64 text
Match_encode(m) ==
    IF m.cube_value <= 0
    THEN Raised("ValueError")
    ELSE LET key == match_key(m)
             n == (Len(key) + 7) \div 8
             match_bytes == [k \in 1..n |->
                 IntOfBits(Reverse(SubSeq(key, 8 * (k - 1) + 1,
                                          IF 8 * k <= Len(key) THEN 8 * k
                                          ELSE Len(key))))]
         IN  IF n # 9
             THEN Raised("struct.error")
             ELSE Returned(b64encode(match_bytes))

\* base64.b64decode(s) for s without "=": as with "==" added when the data
\* characters come in fours, binascii.Error (incorrect padding) otherwise
b64decode(s) ==
    IF Len(SelectSeq(s, LAMBDA c : c \in B64Chars)) % 4 # 0
    THEN Raised("binascii.Error")
    ELSE b64decode_padded(s)

\* int(key[a:b][::-1], 2) of decode; the slice ends where the key ends
key_field(key, a, b) ==
    IntOfBits(Reverse(SubSeq(key, a + 1, IF b <= Len(key) THEN b ELSE Len(key))))

\* decode(match_id): the bits of each byte reversed make the key; int() of
\* an empty slice raises ValueError (the key is a whole number of bytes, so
\* one of the slices is empty whenever it has fewer than 52 bits), and so do
\* Player() and GameState() of a value that is none of their members
Match_decode(match_id) ==
    LET decoded == b64decode(match_id)
        bits == BitsOfBytes(decoded.value)
        key == [i \in 1..Len(bits) |-> bits[8 * ((i - 1) \div 8) + 8 - ((i - 1) % 8)]]
    IN  IF decoded.outcome # "ok"
        THEN decoded
        ELSE IF \/ Len(key) < 52
                \/ key_field(key, 4, 6) \notin {ZERO, ONE, CENTERED}
                \/ key_field(key, 8, 11) > DROPPED_CUBE
        THEN Raised("ValueError")
        ELSE Returned([cube_value |-> 2 ^ key_field(key, 0, 4),
                       cube_holder |-> key_field(key, 4, 6),
                       player |-> key[7],
                       crawford |-> key[8] = 1,
                       game_state |-> key_field(key, 8, 11),
                       turn |-> key[12],
                       double |-> key[13] = 1,
                       resign |-> key_field(key, 13, 15),
                       dice |-> <<key_field(key, 15, 18), key_field(key, 18, 21)>>,
                       length |-> key_field(key, 21, 36),
                       player_0_score |-> key_field(key, 36, 51),
                       player_1_score |-> key_field(key, 51, 66)])

-----------------------------------------------------------------------------
(* backgammon.py: the match controller                                     *)

\* decode(STARTING_POSITION_ID)
StartingPosition ==
    LET b == << -2, 0, 0, 0, 0, 5, 0, 3, 0, 0, 0, -5,
                 5, 0, 0, 0, -3, 0, -5, 0, 0, 0, 0, 2 >>
    IN  Position([i \in 0..(POINTS - 1) |-> b[i + 1]], 0, 0, 0, 0)

\* decode(STARTING_MATCH_ID)
StartingMatch ==
    [cube_value |-> 1, cube_holder |-> CENTERED, player |-> ONE,
     crawford |-> FALSE, game_state |-> NOT_STARTED, turn |-> ONE,
     double |-> FALSE, resign |-> RESIGN_NONE, dice |-> <<0, 0>>,
     length |-> 0, player_0_score |-> 0, player_1_score |-> 0]

\* What a controller call leaves behind: the outcome ("ok" or the exception
\* raised), the engine's position and match, and whether it drew an opening
\* roll.
Ok(p, m, rolled) ==
    [outcome |-> "ok", position |-> p, match |-> m, rolled |-> rolled]
Raise(error, p, m) ==
    [outcome |-> error, position |-> p, match |-> m, rolled |-> FALSE]

\* The pairs first_roll can end with: the loop redraws until the dice differ
FirstRolls == {d \in DieFaces \X DieFaces : d[1] # d[2]}

\* first_roll as it would be if the lower die went first
first_roll_to_lower_die(m, fr) ==
    IF fr[1] < fr[2]
    THEN [m EXCEPT !.dice = fr, !.player = ZERO, !.turn = ZERO]
    ELSE [m EXCEPT !.dice = fr, !.player = ONE, !.turn = ONE]

\* Backgammon.first_roll; fr is the pair the loop ends with
first_roll(m, fr) ==
    IF fr[1] > fr[2]
    THEN [m EXCEPT !.dice = fr, !.player = ZERO, !.turn = ZERO]
    ELSE [m EXCEPT !.dice = fr, !.player = ONE, !.turn = ONE]

\* Backgammon.start
start_result(p, m, length, fr) ==
    Ok(p, first_roll([m EXCEPT !.game_state = PLAYING, !.length = length], fr), TRUE)

\* roll as it would be without the test of the dice
roll_result_untested(p, m, d) == Ok(p, [m EXCEPT !.dice = d], FALSE)

\* Backgammon.roll; d is the pair drawn
roll_result(p, m, d) ==
    IF m.dice # <<0, 0>>
    THEN Raise("BackgammonError", p, m)
    ELSE Ok(p, [m EXCEPT !.dice = d], FALSE)

\* end_turn as it would be if turn were flipped on its own, not set with
\* player
end_turn_flipping_turn(p, m) ==
    Ok(Position_swap_players(p),
       reset_dice(swap_turn([m EXCEPT !.player = IF m.player = ONE THEN ZERO ELSE ONE])),
       FALSE)

\* Backgammon.end_turn
end_turn(p, m) == Ok(Position_swap_players(p), reset_dice(Match_swap_players(m)), FALSE)

\* end_game as it would be without the reset of the cube
end_game_keeping_cube(p, m, multiplier, fr) ==
    LET m1 == [update_score(m, multiplier) EXCEPT !.resign = RESIGN_NONE]
    IN  IF m1.game_state = PLAYING
        THEN Ok(StartingPosition, first_roll(m1, fr), TRUE)
        ELSE Ok(p, m1, FALSE)

\* Backgammon.end_game
end_game(p, m, multiplier, fr) ==
    LET m1 == [update_score(m, multiplier) EXCEPT !.resign = RESIGN_NONE]
    IN  IF m1.game_state = PLAYING
        THEN Ok(StartingPosition, first_roll(reset_cube(m1), fr), TRUE)
        ELSE Ok(p, m1, FALSE)

RECURSIVE ApplyMoves(_, _)
ApplyMoves(p, moves) ==
    IF Len(moves) = 0 THEN p
    ELSE ApplyMoves(apply_move(p, Head(moves)[1], Head(moves)[2]), Tail(moves))

\* lines 206-216 of play: the multiplier of a finished game
game_multiplier(p) ==
    IF p.opponent_off = 0
    THEN IF p.opponent_bar > 0
            \/ SumRange(p.board_points, 0, POINTS_PER_QUADRANT - 1) # 0
         THEN 3
         ELSE 2
    ELSE 1

\* play as it would be if it assigned self.position before the legality test
play_result_assigning_first(p, m, moves, raised, legal_plays, fr) ==
    LET new_position == ApplyMoves(p, moves)
    IN  IF raised
        THEN Raise("IndexError", p, m)
        ELSE IF \E i \in 1..Len(legal_plays) : legal_plays[i].position = new_position
             THEN IF new_position.player_off = CHECKERS
                  THEN end_game(new_position, m, game_multiplier(new_position), fr)
                  ELSE end_turn(new_position, m)
             ELSE Raise("BackgammonError", new_position, m)

\* Backgammon.play.  raised and legal_plays are what self.generate_plays()
\* does for (p, m.dice): generate_plays_raises and generate_plays.
play_result(p, m, moves, raised, legal_plays, fr) ==
    LET new_position == ApplyMoves(p, moves)
    IN  IF raised
        THEN Raise("IndexError", p, m)
        ELSE IF \E i \in 1..Len(legal_plays) : legal_plays[i].position = new_position
             THEN IF new_position.player_off = CHECKERS
                  THEN end_game(new_position, m, game_multiplier(new_position), fr)
                  ELSE end_turn(new_position, m)
             ELSE Raise("BackgammonError", p, m)

\* the dead-cube test as it would be on the doubled cube value
dead_cube_on_new_value(m) ==
    (IF m.player = ZERO THEN m.player_0_score ELSE m.player_1_score)
        + 2 * m.cube_value >= m.length

\* the dead-cube test of double (lines 237-241)
dead_cube(m) ==
    (IF m.player = ZERO THEN m.player_0_score ELSE m.player_1_score)
        + m.cube_value >= m.length

\* double as it would be without the test of the Crawford flag
double_result_ignoring_crawford(p, m) ==
    IF m.dice # <<0, 0>> THEN Raise("BackgammonError", p, m)
    ELSE IF m.cube_holder # CENTERED /\ m.cube_holder # m.player
         THEN Raise("BackgammonError", p, m)
    ELSE IF m.double THEN Raise("BackgammonError", p, m)
    ELSE IF dead_cube(m) THEN Raise("BackgammonError", p, m)
    ELSE Ok(p, swap_turn([m EXCEPT !.double = TRUE]), FALSE)

\* double as it would be if the offer left the turn with the doubler
double_result_keeping_turn(p, m) ==
    IF m.dice # <<0, 0>> THEN Raise("BackgammonError", p, m)
    ELSE IF m.cube_holder # CENTERED /\ m.cube_holder # m.player
         THEN Raise("BackgammonError", p, m)
    ELSE IF m.double THEN Raise("BackgammonError", p, m)
    ELSE IF dead_cube(m) THEN Raise("BackgammonError", p, m)
    ELSE IF m.crawford THEN Raise("BackgammonError", p, m)
    ELSE Ok(p, [m EXCEPT !.double = TRUE], FALSE)

\* Backgammon.double
double_result(p, m) ==
    IF m.dice # <<0, 0>> THEN Raise("BackgammonError", p, m)
    ELSE IF m.cube_holder # CENTERED /\ m.cube_holder # m.player
         THEN Raise("BackgammonError", p, m)
    ELSE IF m.double THEN Raise("BackgammonError", p, m)
    ELSE IF dead_cube(m) THEN Raise("BackgammonError", p, m)
    ELSE IF m.crawford THEN Raise("BackgammonError", p, m)
    ELSE Ok(p, swap_turn([m EXCEPT !.double = TRUE]), FALSE)

\* accept_double as it would be if it raised the cube by one level of three
accept_double_result_tripling(p, m) ==
    IF m.double
    THEN Ok(p, swap_turn([m EXCEPT !.double = FALSE,
                                   !.cube_value = @ * 3,
                                   !.cube_holder = IF m.turn = ZERO THEN ZERO ELSE ONE]),
            FALSE)
    ELSE Raise("BackgammonError", p, m)

\* Backgammon.accept_double
accept_double_result(p, m) ==
    IF m.double
    THEN Ok(p, swap_turn([m EXCEPT !.double = FALSE,
                                   !.cube_value = @ * 2,
                                   !.cube_holder = IF m.turn = ZERO THEN ZERO ELSE ONE]),
            FALSE)
    ELSE Raise("BackgammonError", p, m)

\* Backgammon.reject_double
reject_double_result(p, m, fr) ==
    IF m.double
    THEN LET m1 == drop_cube(m)
         IN  IF m1.game_state = PLAYING
             THEN Ok(StartingPosition, first_roll(reset_cube(m1), fr), TRUE)
             ELSE Ok(p, m1, FALSE)
    ELSE Raise("BackgammonError", p, m)

\* Backgammon.resign
resign_result(p, m, resign_type) ==
    IF m.resign = RESIGN_NONE
    THEN Ok(p, swap_turn([m EXCEPT !.resign = resign_type]), FALSE)
    ELSE Raise("BackgammonError", p, m)

\* accept_resignation as it would be if every resignation counted one game
accept_resignation_result_as_single_game(p, m, fr) ==
    IF m.resign # RESIGN_NONE
    THEN end_game(p, m, SINGLE_GAME, fr)
    ELSE Raise("BackgammonError", p, m)

\* Backgammon.accept_resignation
accept_resignation_result(p, m, fr) ==
    IF m.resign # RESIGN_NONE
    THEN end_game(p, m, m.resign, fr)
    ELSE Raise("BackgammonError", p, m)

\* Backgammon.reject_resignation
reject_resignation_result(p, m) ==
    IF m.resign # RESIGN_NONE
    THEN Ok(p, swap_turn([m EXCEPT !.resign = RESIGN_NONE]), FALSE)
    ELSE Raise("BackgammonError", p, m)

\* skip as it would be without the test of the number of plays
skip_result_untested(p, m, raised, legal_plays) ==
    IF raised
    THEN Raise("IndexError", p, m)
    ELSE end_turn(p, m)

\* Backgammon.skip.  raised and legal_plays as for play_result.
skip_result(p, m, raised, legal_plays) ==
    IF raised
    THEN Raise("IndexError", p, m)
    ELSE IF Len(legal_plays) = 0
         THEN end_turn(p, m)
         ELSE Raise("BackgammonError", p, m)


-----------------------------------------------------------------------------
(* The engine as a state machine                                           *)
(*                                                                         *)
(* position, match  the two fields of a Backgammon instance                *)
(* last             the last controller call: its name, its outcome, and   *)
(*                  its argument (moves for play; arg for start and resign)*)
(*                  and the name of the call made before it (prior)        *)
(* steps            the number of calls made                               *)
(* plays            the list returned by the last generate_plays call      *)
(*                  (used by SpecGen only)                                 *)
(* ident            the identifier returned by the last encode call        *)
(*                  (used by the codec specifications only)                *)

\* Bound: a run makes at most MaxOps calls.
MaxOps == 2

\* start(length): the lengths tried (3 is the default argument)
Lengths == {3}

\* resign(resign_type): the offers a player can make
ResignTypes == {SINGLE_GAME, GAMMON, BACKGAMMON}

Board(b) == [i \in 0..(POINTS - 1) |-> b[i + 1]]

Match(cube_value, cube_holder, player, crawford, game_state, turn, double_, resign_, dice, length, player_0_score, player_1_score) ==
    [cube_value |-> cube_value, cube_holder |-> cube_holder, player |-> player,
     crawford |-> crawford, game_state |-> game_state, turn |-> turn,
     double |-> double_, resign |-> resign_, dice |-> dice,
     length |-> length, player_0_score |-> player_0_score,
     player_1_score |-> player_1_score]

Engine(p, m) == [position |-> p, match |-> m]

\* Backgammon.__init__(position_id, match_id): the instances the model starts
\* from, each written as the values its two identifiers decode to.
InitEngines ==
    { \* Backgammon()
      Engine(StartingPosition, StartingMatch),
      \* "4HPwATDgc/ABMA", "cAlqAAAAAAAE"  (test_play)
      Engine(StartingPosition,
             Match(1, CENTERED, ONE, FALSE, PLAYING, ONE, FALSE, RESIGN_NONE,
                   <<4, 2>>, 3, 0, 0)),
      \* "4NvBEQiYz+ABAw", "cAlqAAAAAAAE"  (test_play)
      Engine(Position(Board(<<0,0,-1,2,0,5,0,2,-1,0,0,-3,4,0,0,0,-3,-2,-5,2,0,0,0,0>>),
                      0, 0, 0, 0),
             Match(1, CENTERED, ONE, FALSE, PLAYING, ONE, FALSE, RESIGN_NONE,
                   <<4, 2>>, 3, 0, 0)),
      \* "27YBAAAAACAAAA" (test_enter), "cAngAAAAAAAA"
      Engine(Position(Board(<<0,0,0,0,0,0,0,0,0,0,0,0,0,0,0,0,0,0,-2,-2,-2,-2,-2,-2>>),
                      1, 14, 0, 3),
             Match(1, CENTERED, ONE, FALSE, PLAYING, ONE, FALSE, RESIGN_NONE,
                   <<0, 0>>, 7, 0, 0)),
      \* "CwAAiAIAAAAAAA", "cAluAAAAAAAE"  (test_play)
      Engine(Position(Board(<<0,0,1,1,0,0,0,0,0,0,0,0,0,0,0,0,0,0,0,0,0,0,-1,-2>>),
                      0, 13, 1, 11),
             Match(1, CENTERED, ONE, FALSE, PLAYING, ONE, FALSE, RESIGN_NONE,
                   <<4, 3>>, 3, 0, 0)),
      \* "2+4FAEAhAAAAAA", "cAlvAAAAAAAE"  (test_play)
      Engine(Position(Board(<<1,0,0,0,1,0,0,0,0,0,0,0,0,0,0,0,0,0,-1,-4,-3,-2,-2,-2>>),
                      0, 13, 1, 0),
             Match(1, CENTERED, ONE, FALSE, PLAYING, ONE, FALSE, RESIGN_NONE,
                   <<6, 3>>, 3, 0, 0)),
      \* "2+4NAAAhAAAAAA", "cAlvAAAAAAAE"  (test_play)
      Engine(Position(Board(<<1,0,0,0,1,0,0,0,0,0,0,0,0,0,0,0,0,0,-2,-4,-3,-2,-2,-2>>),
                      0, 13, 0, 0),
             Match(1, CENTERED, ONE, FALSE, PLAYING, ONE, FALSE, RESIGN_NONE,
                   <<6, 3>>, 3, 0, 0)),
      \* "4HPhASLgc/ABMA" (test_double), "UQlgAAAAAAAA"
      Engine(Position(Board(<<-1,0,0,-1,0,5,0,3,0,0,0,-4,5,0,0,-1,-3,0,-5,0,0,0,0,2>>),
                      0, 0, 0, 0),
             Match(2, ONE, ONE, FALSE, PLAYING, ONE, FALSE, RESIGN_NONE,
                   <<0, 0>>, 3, 0, 0)),
      \* "4HPhASLgc/ABMA", "MAHgAGAAKAAA"  (test_double)
      Engine(Position(Board(<<-1,0,0,-1,0,5,0,3,0,0,0,-4,5,0,0,-1,-3,0,-5,0,0,0,0,2>>),
                      0, 0, 0, 0),
             Match(1, CENTERED, ZERO, FALSE, PLAYING, ZERO, FALSE, RESIGN_NONE,
                   <<0, 0>>, 7, 6, 5)),
      \* "4HPhASLgc/ABMA", "MBngAAAAAAAE"  (test_accept_double)
      Engine(Position(Board(<<-1,0,0,-1,0,5,0,3,0,0,0,-4,5,0,0,-1,-3,0,-5,0,0,0,0,2>>),
                      0, 0, 0, 0),
             Match(1, CENTERED, ZERO, FALSE, PLAYING, ONE, TRUE, RESIGN_NONE,
                   <<0, 0>>, 7, 0, 0)),
      \* "4HPhASLgc/ABMA", "EQHgAAAAAAAA"  (test_double: the opponent holds the cube)
      Engine(Position(Board(<<-1,0,0,-1,0,5,0,3,0,0,0,-4,5,0,0,-1,-3,0,-5,0,0,0,0,2>>),
                      0, 0, 0, 0),
             Match(2, ONE, ZERO, FALSE, PLAYING, ZERO, FALSE, RESIGN_NONE,
                   <<0, 0>>, 7, 0, 0)),
      \* "4HPhASLgc/ABMA", "8AmgAEAAGAAA"  (test_double: Crawford game)
      Engine(Position(Board(<<-1,0,0,-1,0,5,0,3,0,0,0,-4,5,0,0,-1,-3,0,-5,0,0,0,0,2>>),
                      0, 0, 0, 0),
             Match(1, CENTERED, ONE, TRUE, PLAYING, ONE, FALSE, RESIGN_NONE,
                   <<0, 0>>, 5, 4, 3)),
      \* "4HPhASLgc/ABMA", "MBngAGAAAAAA"  (a double pending, the doubler one
      \* point from the match)
      Engine(Position(Board(<<-1,0,0,-1,0,5,0,3,0,0,0,-4,5,0,0,-1,-3,0,-5,0,0,0,0,2>>),
                      0, 0, 0, 0),
             Match(1, CENTERED, ZERO, FALSE, PLAYING, ONE, TRUE, RESIGN_NONE,
                   <<0, 0>>, 7, 6, 0)),
      \* "4HPhASLgc/ABMA", "cCHgAAAAAAAA"  (a resignation offered by the player
      \* on roll: the state after resign(Resign.SINGLE_GAME) with the dice unset)
      Engine(Position(Board(<<-1,0,0,-1,0,5,0,3,0,0,0,-4,5,0,0,-1,-3,0,-5,0,0,0,0,2>>),
                      0, 0, 0, 0),
             Match(1, CENTERED, ONE, FALSE, PLAYING, ZERO, FALSE, SINGLE_GAME,
                   <<0, 0>>, 7, 0, 0)),
      \* "2+4FAAQhAAAAAA", "cAlvAAAAAAAE"  (test_play)
      Engine(Position(Board(<<1,0,0,-1,1,0,0,0,0,0,0,0,0,0,0,0,0,0,-1,-4,-3,-2,-2,-2>>),
                      0, 13, 0, 0),
             Match(1, CENTERED, ONE, FALSE, PLAYING, ONE, FALSE, RESIGN_NONE,
                   <<6, 3>>, 3, 0, 0)),
      \* "MgAAAAAAEAAAAA", "cAnqAAAAAAAE"  (test_skip)
      Engine(Position(Board(<<0,0,0,0,0,0,0,0,0,0,0,0,0,0,0,0,0,0,0,0,-2,0,-1,0>>),
                      1, 14, 0, 12),
             Match(1, CENTERED, ONE, FALSE, PLAYING, ONE, FALSE, RESIGN_NONE,
                   <<4, 2>>, 7, 0, 0)),
      \* "4HPhASLgc/ABMA", "sEmgAEAAEAAA"  (a Crawford game in which the leader
      \* has offered to resign a gammon)
      Engine(Position(Board(<<-1,0,0,-1,0,5,0,3,0,0,0,-4,5,0,0,-1,-3,0,-5,0,0,0,0,2>>),
                      0, 0, 0, 0),
             Match(1, CENTERED, ZERO, TRUE, PLAYING, ONE, FALSE, GAMMON,
                   <<0, 0>>, 5, 4, 2)),
      \* "CwAACAAAAAAAAA", "cAouAAAACAAA"  (a match of one point that player
      \* ONE has won by bearing off the last checker)
      Engine(Position(Board(<<0,0,0,0,0,0,0,0,0,0,0,0,0,0,0,0,0,0,0,0,0,0,-1,-2>>),
                      0, 15, 1, 11),
             Match(1, CENTERED, ONE, FALSE, GAME_OVER, ONE, FALSE, RESIGN_NONE,
                   <<4, 3>>, 1, 0, 1)) }

NoCall == [op |-> "__init__", outcome |-> "ok", moves |-> << >>, arg |-> 0, prior |-> "none"]

Init ==
    /\ \E e \in InitEngines : position = e.position /\ match = e.match
    /\ plays = << >>
    /\ last = NoCall
    /\ steps = 0
    /\ ident = << >>

\* A run is followed for MaxOps calls, or to its first failed call: a failed
\* call returns to the caller with an exception, and whatever it left in
\* position and match is in the state the run ends in.
Callable == steps < MaxOps /\ last.outcome = "ok"

\* The call `op` ends as r says.
Commit(op, moves, arg, r) ==
    /\ position' = r.position
    /\ match' = r.match
    /\ last' = [op |-> op, outcome |-> r.outcome, moves |-> moves, arg |-> arg, prior |-> last.op]
    /\ steps' = steps + 1
    /\ plays' = plays
    /\ ident' = ident

\* A call whose result R(fr) may depend on the opening roll fr it draws:
\* every opening roll when it draws one, its one result when it does not.
CommitRolling(op, moves, arg, R(_)) ==
    LET r0 == R(<<2, 1>>)
    IN  IF r0.rolled
        THEN \E fr \in FirstRolls : Commit(op, moves, arg, R(fr))
        ELSE Commit(op, moves, arg, r0)

start ==
    /\ Callable
    /\ \E length \in Lengths :
          CommitRolling("start", << >>, length,
                        LAMBDA fr : start_result(position, match, length, fr))

roll ==
    /\ Callable
    /\ IF match.dice # <<0, 0>>
       THEN Commit("roll", << >>, 0, roll_result(position, match, <<0, 0>>))
       ELSE \E d \in DieFaces \X DieFaces :
                Commit("roll", << >>, 0, roll_result(position, match, d))

MovePairs(moves) ==
    [i \in 1..Len(moves) |-> <<moves[i].source, moves[i].destination>>]

Prefixes(s) == {SubSeq(s, 1, k) : k \in 0..Len(s)}

\* play(moves): the move tuples submitted.  Every legal play of the
\* generator and every prefix of one (the empty tuple among them), every
\* single move the generator tried, and a pair of moves that is never legal
\* (test_play).
CandidateMoves(raised, raw, legal_plays) ==
    IF raised THEN { << >>, << <<12, 8>>, <<19, 17>> >> }
    ELSE UNION {Prefixes(MovePairs(legal_plays[i].moves)) : i \in 1..Len(legal_plays)}
         \cup {MovePairs(raw[i].moves) : i \in {j \in 1..Len(raw) : Len(raw[j].moves) = 1}}
         \cup { << >>, << <<12, 8>>, <<19, 17>> >> }

\* (\E x \in {e} binds x to the value of e, so that e is evaluated once.)
play ==
    /\ Callable
    /\ \E raw \in {raw_plays(position, match.dice)} :
       \E legal_plays \in {returned_plays(raw, match.dice)} :
       \E moves \in CandidateMoves(raises_in(raw), raw, legal_plays) :
           CommitRolling("play", moves, 0,
               LAMBDA fr : play_result(position, match, moves,
                                       raises_in(raw), legal_plays, fr))

double ==
    /\ Callable
    /\ Commit("double", << >>, 0, double_result(position, match))

accept_double ==
    /\ Callable
    /\ Commit("accept_double", << >>, 0, accept_double_result(position, match))

reject_double ==
    /\ Callable
    /\ CommitRolling("reject_double", << >>, 0,
                     LAMBDA fr : reject_double_result(position, match, fr))

resign ==
    /\ Callable
    /\ \E resign_type \in ResignTypes :
          Commit("resign", << >>, resign_type,
                 resign_result(position, match, resign_type))

accept_resignation ==
    /\ Callable
    /\ CommitRolling("accept_resignation", << >>, 0,
                     LAMBDA fr : accept_resignation_result(position, match, fr))

reject_resignation ==
    /\ Callable
    /\ Commit("reject_resignation", << >>, 0,
              reject_resignation_result(position, match))

skip ==
    /\ Callable
    /\ \E raw \in {raw_plays(position, match.dice)} :
       \E legal_plays \in {returned_plays(raw, match.dice)} :
           Commit("skip", << >>, 0,
                  skip_result(position, match, raises_in(raw), legal_plays))

Next ==
    \/ start
    \/ roll
    \/ play
    \/ double
    \/ accept_double
    \/ reject_double
    \/ resign
    \/ accept_resignation
    \/ reject_resignation
    \/ skip

Spec == Init /\ [][Next]_vars



-----------------------------------------------------------------------------
(* The play generator on its own: generate_plays() called on an engine that *)
(* holds a rolled pair, and skip(), which rests on it.  generate_plays      *)
(* changes no field of the engine; its result is kept in plays.             *)

\* Bound: the player has MaxLoose checkers that are not borne off at the
\* start (on the bar or on the points).
MaxLoose == 2

\* where a loose checker stands: a point, the bar (POINTS), or borne off
\* after all (POINTS + 1)
Spots == {0, 1, 2, 3, 4, 5, 6, 7, 9, 12, 23, POINTS, POINTS + 1}

\* the opponent's checkers on the points, as board_points holds them
OpponentLayouts ==
    { Board(<<0,0,0,0,0,0,0,0,0,0,0,0,0,0,0,0,0,0,0,0,0,0,0,0>>),
      \* the entry points closed (test_enter)
      Board(<<0,0,0,0,0,0,0,0,0,0,0,0,0,0,0,0,0,0,-2,-2,-2,-2,-2,-2>>),
      \* two entry points open, one of them holding a blot (test_enter)
      Board(<<0,0,0,0,0,0,0,0,0,0,0,0,0,0,0,0,0,0,-2,0,-1,-2,-2,-2>>),
      \* points and blots in the player's home and outer boards
      Board(<<0,-2,0,0,-1,0,0,0,-2,0,-1,0,0,0,0,0,0,0,0,0,-2,0,0,0>>),
      Board(<<-2,0,0,-1,0,0,0,0,0,0,0,-2,0,0,0,0,0,0,-1,-2,0,0,-2,0>>) }

Placements ==
    {f \in [1..MaxLoose -> Spots] : \A k \in 1..(MaxLoose - 1) : f[k] <= f[k + 1]}

CountAt(f, spot) == Cardinality({k \in 1..MaxLoose : f[k] = spot})

\* the position with the opponent as in layout and the player's loose
\* checkers as f places them, everything else borne off
Placed(layout, f) ==
    Position([i \in 0..(POINTS - 1) |-> layout[i] + CountAt(f, i)],
             CountAt(f, POINTS),
             CHECKERS - MaxLoose + CountAt(f, POINTS + 1),
             0,
             CHECKERS + SumRange(layout, 0, POINTS - 1))

PlacedPositions ==
    { Placed(layout, f) :
        <<layout, f>> \in { lf \in OpponentLayouts \X Placements :
                               \A k \in 1..MaxLoose :
                                   lf[2][k] < POINTS => lf[1][lf[2][k]] = 0 } }

\* positions of test_bear_off, test_move and test_skip, and the starting
\* position
TestPositions ==
    { StartingPosition,
      \* "AACAYQMAAAAAAA"
      Position(Board(<<-2,0,2,2,0,0,0,0,0,0,0,0,0,0,0,0,0,0,0,0,0,0,0,0>>), 0, 11, 0, 13),
      \* "AACAMQEAAAAAAA"
      Position(Board(<<-2,2,0,1,0,0,0,0,0,0,0,0,0,0,0,0,0,0,0,0,0,0,0,0>>), 0, 12, 0, 13),
      \* "AACAIQsAAAAAAA"
      Position(Board(<<-2,0,1,0,2,1,0,0,0,0,0,0,0,0,0,0,0,0,0,0,0,0,0,0>>), 0, 11, 0, 13),
      \* "bHc3AADfbQMAIA"
      Position(Board(<<5,3,2,2,2,0,0,0,0,0,0,0,0,0,0,0,-2,-3,-3,-3,-2,-2,0,1>>), 0, 0, 0, 0),
      \* "mAAAAAAArgAAAA"
      Position(Board(<<0,0,0,0,0,0,0,0,0,0,0,0,0,0,0,0,0,0,-1,0,-2,3,1,1>>), 0, 10, 0, 12),
      \* "rsPOAgAAAAIBAA"
      Position(Board(<<0,0,0,0,0,0,0,0,0,0,0,0,-1,-2,0,-3,-2,1,0,0,-3,-1,-3,1>>), 0, 13, 0, 0),
      \* "ZgAAAAAAIAAAAA"
      Position(Board(<<0,0,0,0,0,0,0,0,0,0,0,0,0,0,0,0,0,0,0,0,-2,0,-2,0>>), 1, 14, 0, 11) }

\* positions like that of test_bear_off: the player's checkers on points 3
\* and 4 only (board_points 2 and 3), one or two on each, the ace point
\* free, holding an opponent blot or held by the opponent
BearOffPositions ==
    { Position([i \in 0..(POINTS - 1) |->
                   IF i = 0 THEN o ELSE IF i = 2 THEN a ELSE IF i = 3 THEN b ELSE 0],
               0, CHECKERS - a - b, 0, CHECKERS + o) :
        o \in {-3, -2, -1, 0}, a \in 1..2, b \in 1..2 }

\* the match of an engine whose player has rolled d ("cAn.AAAAAAAE")
RolledMatch(d) ==
    Match(1, CENTERED, ONE, FALSE, PLAYING, ONE, FALSE, RESIGN_NONE, d, 7, 0, 0)

InitGen ==
    /\ position \in PlacedPositions \cup TestPositions \cup BearOffPositions
    /\ \E d \in DieFaces \X DieFaces : match = RolledMatch(d)
    /\ plays = << >>
    /\ last = NoCall
    /\ steps = 0
    /\ ident = << >>

\* generate_plays(): returns the plays, or ends with the IndexError raised
\* inside generate
call_generate_plays ==
    /\ Callable
    /\ \E raw \in {raw_plays(position, match.dice)} :
          IF raises_in(raw)
          THEN /\ plays' = plays
               /\ last' = [op |-> "generate_plays", outcome |-> "IndexError",
                           moves |-> << >>, arg |-> 0, prior |-> last.op]
          ELSE /\ plays' = returned_plays(raw, match.dice)
               /\ last' = [op |-> "generate_plays", outcome |-> "ok",
                           moves |-> << >>, arg |-> 0, prior |-> last.op]
    /\ steps' = steps + 1
    /\ UNCHANGED <<position, match, ident>>

NextGen ==
    \/ call_generate_plays
    \/ skip

SpecGen == InitGen /\ [][NextGen]_vars

-----------------------------------------------------------------------------
(* Position.off() on its own: called on a Position for a point of the home *)
(* board and the pips of a die.  A Position is frozen: the call changes    *)
(* nothing and returns the new Position and the destination, or None and   *)
(* None; what it returned is kept in plays.                                *)

InitOff ==
    /\ position \in PlacedPositions \cup TestPositions
    /\ match = StartingMatch
    /\ plays = << >>
    /\ last = NoCall
    /\ steps = 0
    /\ ident = << >>

\* position.off(point, pips)
call_off ==
    /\ last.op = "__init__"
    /\ \E point \in 0..(POINTS_PER_QUADRANT - 1), pips \in DieFaces :
          /\ plays' = <<off(position, point, pips)>>
          /\ last' = [op |-> "off", outcome |-> "ok", moves |-> << >>,
                      arg |-> <<point, pips>>, prior |-> last.op]
    /\ steps' = steps + 1
    /\ UNCHANGED <<position, match, ident>>

NextOff == call_off

SpecOff == InitOff /\ [][NextOff]_vars

-----------------------------------------------------------------------------
(* first_roll() step by step: one step per pass of its while loop, and one  *)
(* for the assignment of player and turn after the loop.  last.outcome is   *)
(* the place of the call: "loop" while the last pair drawn was a tie (the   *)
(* loop goes round again), "break" when the loop has been left, "ok" when   *)
(* first_roll() has returned.                                               *)

\* Bound: a run draws at most MaxDraws pairs.
MaxDraws == 3

\* lines 178-184 of first_roll: one pass of the loop.  The pair drawn is
\* assigned to match.dice before it is tested.
first_roll_draw ==
    /\ last.outcome \in {"ok", "loop"}
    /\ steps < MaxDraws
    /\ \E d \in DieFaces \X DieFaces :
          /\ match' = [match EXCEPT !.dice = d]
          /\ last' = [op |-> "first_roll",
                      outcome |-> IF d[1] # d[2] THEN "break" ELSE "loop",
                      moves |-> << >>, arg |-> 0,
                      prior |-> IF last.outcome = "ok" THEN last.op ELSE last.prior]
    /\ steps' = steps + 1
    /\ UNCHANGED <<position, plays, ident>>

\* lines 185-191 of first_roll: the player with the higher die is on roll
first_roll_assign ==
    /\ last.outcome = "break"
    /\ match' = first_roll(match, match.dice)
    /\ last' = [last EXCEPT !.outcome = "ok"]
    /\ UNCHANGED <<position, plays, steps, ident>>

NextRoll ==
    \/ first_roll_draw
    \/ first_roll_assign

SpecRoll == Init /\ [][NextRoll]_vars

-----------------------------------------------------------------------------
(* first_roll() with fair dice.  The loop of first_roll() has no bound of   *)
(* its own, so here steps counts the pairs drawn up to MaxDraws and stays   *)
(* there.  last.prior is the operation that called first_roll().            *)

\* the operations that start a new game: each ends with first_roll()
NewGameCallers == {"start", "end_game", "reject_double"}

\* a loop pass that never leaves the loop, whatever pair is drawn
first_roll_pass_never_leaving ==
    /\ last.outcome \in {"ok", "loop"}
    /\ \E d \in DieFaces \X DieFaces, caller \in NewGameCallers :
          /\ match' = [match EXCEPT !.dice = d]
          /\ last' = [op |-> "first_roll", outcome |-> "loop",
                      moves |-> << >>, arg |-> 0,
                      prior |-> IF last.outcome = "ok" THEN caller ELSE last.prior]
    /\ steps' = IF steps < MaxDraws THEN steps + 1 ELSE steps
    /\ UNCHANGED <<position, plays, ident>>

\* lines 178-184 of first_roll: one pass of the loop, the first one made on
\* behalf of the operation that calls first_roll()
first_roll_pass ==
    /\ last.outcome \in {"ok", "loop"}
    /\ \E d \in DieFaces \X DieFaces, caller \in NewGameCallers :
          /\ match' = [match EXCEPT !.dice = d]
          /\ last' = [op |-> "first_roll",
                      outcome |-> IF d[1] # d[2] THEN "break" ELSE "loop",
                      moves |-> << >>, arg |-> 0,
                      prior |-> IF last.outcome = "ok" THEN caller ELSE last.prior]
    /\ steps' = IF steps < MaxDraws THEN steps + 1 ELSE steps
    /\ UNCHANGED <<position, plays, ident>>

NextRollFair ==
    \/ first_roll_pass
    \/ first_roll_assign

\* fair dice: a pass that draws two different values is not put off for ever
FairDice == WF_vars(first_roll_pass /\ last'.outcome = "break")

SpecRollFair ==
    /\ Init
    /\ [][NextRollFair]_vars
    /\ FairDice
    /\ WF_vars(first_roll_assign)

-----------------------------------------------------------------------------
(* The Position ID codec on its own: Position.encode() called on a Position *)
(* and position.decode() called on the identifier it returned, or on an     *)
(* identifier made from it by dropping or adding characters.                *)

\* each side has its 15 checkers on the points, on the bar and borne off
\* (board_points holds one signed count a point, so no point is shared)
ValidPosition(p) ==
    /\ p.player_bar >= 0 /\ p.player_off >= 0
    /\ p.opponent_bar >= 0 /\ p.opponent_off >= 0
    /\ SumSeq(unmerge_points(p.board_points)[1]) + p.player_bar + p.player_off = CHECKERS
    /\ SumSeq(unmerge_points(p.board_points)[2]) + p.opponent_bar + p.opponent_off = CHECKERS

\* the Positions encoded: those of the generator specification and of the
\* engines, and the starting Position
CodecPositions ==
    {p \in PlacedPositions \cup TestPositions
             \cup {e.position : e \in InitEngines} \cup {StartingPosition} :
        ValidPosition(p)}

\* Bound: an identifier is tried with up to MaxExtra characters added.
MaxExtra == 6

\* the identifiers decode is called with: id itself, id cut short, id with
\* "A" added at its end, and id with its last character replaced
IdsTried(id) ==
    {SubSeq(id, 1, k) : k \in 0..Len(id)}
        \cup {id \o [i \in 1..k |-> "A"] : k \in 1..MaxExtra}
        \cup {SubSeq(id, 1, Len(id) - 1) \o <<c>> : c \in {"B", "/"}}

InitPositionId ==
    /\ position \in CodecPositions
    /\ match = StartingMatch
    /\ plays = << >>
    /\ last = NoCall
    /\ steps = 0
    /\ ident = << >>

\* position.encode()
call_Position_encode ==
    /\ last.op = "__init__"
    /\ \E r \in {Position_encode(position)} :
          /\ ident' = r.value
          /\ last' = [op |-> "Position.encode", outcome |-> r.outcome,
                      moves |-> << >>, arg |-> 0, prior |-> last.op]
    /\ steps' = steps + 1
    /\ UNCHANGED <<position, match, plays>>

\* position = decode(position_id)
call_Position_decode ==
    /\ last.op = "Position.encode"
    /\ last.outcome = "ok"
    /\ \E position_id \in IdsTried(ident) :
       \E r \in {Position_decode(position_id)} :
          /\ position' = IF r.outcome = "ok" THEN r.value ELSE position
          /\ last' = [op |-> "position.decode", outcome |-> r.outcome,
                      moves |-> << >>, arg |-> position_id, prior |-> last.op]
    /\ steps' = steps + 1
    /\ UNCHANGED <<match, plays, ident>>

NextPositionId ==
    \/ call_Position_encode
    \/ call_Position_decode

SpecPositionId == InitPositionId /\ [][NextPositionId]_vars

-----------------------------------------------------------------------------
(* The Match ID codec on its own: Match.encode() called on a Match and     *)
(* match.decode() called on the identifier it returned, or on an           *)
(* identifier made from it by dropping, adding or replacing characters.    *)

\* the rest of a Match: dice, length and the two scores, from none set to
\* the largest values of their fields
CodecScores ==
    {<< <<0, 0>>, 0, 0, 0 >>, << <<5, 2>>, 9, 2, 4 >>,
     << <<6, 6>>, 32767, 32767, 0 >>, << <<1, 6>>, 16384, 1, 32767 >>}

\* the Matches encoded: every combination of the small fields with four
\* cube values, the Matches of the engines, and Matches with a field that
\* does not fit its width or a cube_value that is no power of two
CodecMatches ==
    {[cube_value |-> cv, cube_holder |-> ch, player |-> pl, crawford |-> cr,
      game_state |-> gs, turn |-> tn, double |-> db, resign |-> rs,
      dice |-> sc[1], length |-> sc[2], player_0_score |-> sc[3],
      player_1_score |-> sc[4]] :
        cv \in {1, 2, 64, 32768}, ch \in {ZERO, ONE, CENTERED}, pl \in {ZERO, ONE},
        cr \in BOOLEAN, gs \in NOT_STARTED..DROPPED_CUBE, tn \in {ZERO, ONE},
        db \in BOOLEAN, rs \in RESIGN_NONE..BACKGAMMON, sc \in CodecScores}
      \cup {e.match : e \in InitEngines}
      \cup {[StartingMatch EXCEPT !.player = CENTERED],
            [StartingMatch EXCEPT !.turn = CENTERED],
            [StartingMatch EXCEPT !.cube_value = 3],
            [StartingMatch EXCEPT !.cube_value = 65536],
            [StartingMatch EXCEPT !.cube_value = 0],
            [StartingMatch EXCEPT !.dice = <<7, 2>>],
            [StartingMatch EXCEPT !.length = 32768],
            [StartingMatch EXCEPT !.player_1_score = 2097152]}

\* the identifiers decode is called with: id itself, id cut short, id with
\* "AAAA" added at its end, and id with its first character replaced
MatchIdsTried(id) ==
    {id, SubSeq(id, 1, Len(id) - 1), SubSeq(id, 1, Len(id) - 4),
     id \o <<"A", "A", "A", "A">>, <<"I">> \o SubSeq(id, 2, Len(id))}

InitMatchId ==
    /\ position = StartingPosition
    /\ match \in CodecMatches
    /\ plays = << >>
    /\ last = NoCall
    /\ steps = 0
    /\ ident = << >>

\* match.encode()
call_Match_encode ==
    /\ last.op = "__init__"
    /\ \E r \in {Match_encode(match)} :
          /\ ident' = r.value
          /\ last' = [op |-> "Match.encode", outcome |-> r.outcome,
                      moves |-> << >>, arg |-> 0, prior |-> last.op]
    /\ steps' = steps + 1
    /\ UNCHANGED <<position, match, plays>>

\* match = decode(match_id)
call_Match_decode ==
    /\ last.op = "Match.encode"
    /\ last.outcome = "ok"
    /\ \E match_id \in MatchIdsTried(ident) :
       \E r \in {Match_decode(match_id)} :
          /\ match' = IF r.outcome = "ok" THEN r.value ELSE match
          /\ last' = [op |-> "match.decode", outcome |-> r.outcome,
                      moves |-> << >>, arg |-> match_id, prior |-> last.op]
    /\ steps' = steps + 1
    /\ UNCHANGED <<position, plays, ident>>

NextMatchId ==
    \/ call_Match_encode
    \/ call_Match_decode

SpecMatchId == InitMatchId /\ [][NextMatchId]_vars

-----------------------------------------------------------------------------
(* end_turn() on its own: called again and again on an engine, which swaps *)
(* the sides of the Position and of the Match each time.  plays keeps the  *)
(* engine as it was before the first call.                                 *)

InitEndTurn ==
    /\ position \in CodecPositions
    /\ match \in {e.match : e \in InitEngines}
    /\ plays = << >>
    /\ last = NoCall
    /\ steps = 0
    /\ ident = << >>

\* end_turn()
call_end_turn ==
    /\ Callable
    /\ \E r \in {end_turn(position, match)} :
          /\ position' = r.position
          /\ match' = r.match
          /\ last' = [op |-> "end_turn", outcome |-> r.outcome, moves |-> << >>,
                      arg |-> 0, prior |-> last.op]
    /\ plays' = IF steps = 0 THEN <<Engine(position, match)>> ELSE plays
    /\ steps' = steps + 1
    /\ ident' = ident

NextEndTurn == call_end_turn

SpecEndTurn == InitEndTurn /\ [][NextEndTurn]_vars

-----------------------------------------------------------------------------
(* Properties of the controller, checked under Spec                        *)

\* C1: a controller call that fails leaves the position and every field of
\* the match exactly as they were before the call.
C1_FailedCallChangesNothing ==
    [][last'.outcome # "ok" => position' = position /\ match' = match]_vars

\* a play was refused after an earlier call had succeeded
C1_Witness ==
    /\ last.op = "play"
    /\ last.outcome = "BackgammonError"
    /\ Len(last.moves) > 0
    /\ steps = MaxOps

\* what generate_plays returns to its caller: nothing when it raises
ReturnedPlays(p, match_dice) ==
    IF generate_plays_raises(p, match_dice) THEN << >>
    ELSE generate_plays(p, match_dice)

\* C2: play(moves) succeeds if and only if the position obtained by applying
\* the submitted moves in order to the current position is the resulting
\* position of some play returned by generate_plays() for the current
\* position and dice; otherwise it raises the engine error
\* (BackgammonError).
C2_PlaySucceedsIffGenerated ==
    [][last'.op = "play" =>
         \E new_position \in {ApplyMoves(position, last'.moves)} :
         \E legal_plays \in {ReturnedPlays(position, match.dice)} :
             IF \E i \in 1..Len(legal_plays) : legal_plays[i].position = new_position
             THEN last'.outcome = "ok"
             ELSE last'.outcome = "BackgammonError"]_vars

\* play ended with an exception that is not the engine error: the dice are
\* unset and the player has a checker on the bar
C2_Witness ==
    /\ last.op = "play"
    /\ last.outcome = "IndexError"
    /\ match.dice = <<0, 0>>
    /\ position.player_bar > 0

PlayerCheckers(p) ==
    p.player_off + p.player_bar
        + SumRange([i \in 0..(POINTS - 1) |-> Max(p.board_points[i], 0)], 0, POINTS - 1)

OpponentCheckers(p) ==
    p.opponent_off + p.opponent_bar
        + SumRange([i \in 0..(POINTS - 1) |-> Max(0 - p.board_points[i], 0)], 0, POINTS - 1)

\* C3: checker conservation.  After any sequence of successful controller
\* calls the position has 15 player checkers (off, on the bar, on the points)
\* and 15 opponent checkers.
C3_CheckerConservation ==
    PlayerCheckers(position) = CHECKERS /\ OpponentCheckers(position) = CHECKERS

\* a play that hit a blot has been made (test_play: 12/8* 12/10); the hit
\* checker is on the bar of the player now on roll
C3_Witness ==
    /\ last.op = "play"
    /\ last.outcome = "ok"
    /\ last.moves = << <<12, 8>>, <<12, 10>> >>
    /\ position.player_bar = 1

DoublerScore(m) == IF m.player = ZERO THEN m.player_0_score ELSE m.player_1_score

\* double() has nothing else to refuse: dice unset, cube centered or held by
\* the player, no double pending, not the Crawford game
DoubleOtherwiseAllowed(m) ==
    /\ m.dice = <<0, 0>>
    /\ m.cube_holder = CENTERED \/ m.cube_holder = m.player
    /\ ~m.double
    /\ ~m.crawford

\* C10 (as the code has it): double() fails whenever the doubling player's
\* score plus the current cube_value is greater than or equal to the match
\* length, and is not refused as dead when that sum is below the match
\* length.
C10_DeadCubeOnCurrentValue ==
    [][last'.op = "double" =>
         /\ DoublerScore(match) + match.cube_value >= match.length
                => last'.outcome # "ok"
         /\ (DoublerScore(match) + match.cube_value < match.length
                /\ DoubleOtherwiseAllowed(match))
                => last'.outcome = "ok"]_vars

\* C10 (as stated): double() fails whenever the doubling player's score plus
\* twice the current cube_value is greater than or equal to the match length,
\* and is not refused as dead when that sum is below the match length.
C10_DeadCubeOnNewValue ==
    [][last'.op = "double" =>
         /\ DoublerScore(match) + 2 * match.cube_value >= match.length
                => last'.outcome # "ok"
         /\ (DoublerScore(match) + 2 * match.cube_value < match.length
                /\ DoubleOtherwiseAllowed(match))
                => last'.outcome = "ok"]_vars

\* a double was refused for the dead cube alone (a failed call leaves the
\* match as it was)
C10_Witness ==
    /\ last.op = "double"
    /\ last.outcome = "BackgammonError"
    /\ DoubleOtherwiseAllowed(match)
    /\ match.length > 0
    /\ DoublerScore(match) + match.cube_value >= match.length


-----------------------------------------------------------------------------
(* Properties of the play generator, checked under SpecGen                 *)
(*                                                                         *)
(* The rules of the game, stated on their own (not as the generator        *)
(* computes them): the single moves a die allows, and the positions a roll *)
(* can lead to.                                                            *)

Open(p, point) == p.board_points[point] >= -1

HomePoints == 0..(POINTS_PER_QUADRANT - 1)

NoneOutsideHome(p) ==
    /\ p.player_bar = 0
    /\ \A point \in POINTS_PER_QUADRANT..(POINTS - 1) : p.board_points[point] <= 0

\* the <<source, destination>> moves the rules allow for one die
RuleMoves(p, pips) ==
    IF p.player_bar > 0
    THEN {<<None, POINTS - pips>> : x \in {y \in {0} : Open(p, POINTS - pips)}}
    ELSE IF NoneOutsideHome(p)
    THEN {<<point, point - pips>> :
              point \in {s \in HomePoints : /\ p.board_points[s] > 0
                                           /\ s - pips >= 0
                                           /\ Open(p, s - pips)}}
         \cup
         {<<point, None>> :
              point \in {s \in HomePoints :
                            /\ p.board_points[s] > 0
                            /\ s - pips < 0
                            /\ \/ s - pips = -1
                               \/ \A higher \in HomePoints :
                                      higher > s => p.board_points[higher] <= 0}}
    ELSE {<<point, point - pips>> :
              point \in {s \in 0..(POINTS - 1) : /\ p.board_points[s] > 0
                                                  /\ s - pips >= 0
                                                  /\ Open(p, s - pips)}}

\* <<n, q>>: n of the dice, taken in order, can be played from p and lead to q
RECURSIVE RuleReach(_, _)
RuleReach(p, dice) ==
    IF Len(dice) = 0 THEN {<<0, p>>}
    ELSE {<<0, p>>} \cup
         UNION { {<<r[1] + 1, r[2]>> :
                      r \in RuleReach(apply_move(p, mv[1], mv[2]), Tail(dice))} :
                 mv \in RuleMoves(p, Head(dice)) }

\* the orders a roll's dice are played in
RollOrders(d) ==
    IF d[1] = d[2] THEN {<<d[1], d[1], d[1], d[1]>>}
    ELSE {<<d[1], d[2]>>, <<d[2], d[1]>>}

LegalReach(p, d) == UNION {RuleReach(p, dice) : dice \in RollOrders(d)}

LongestLegal(p, d) == MaxOf({r[1] : r \in LegalReach(p, d)})

Min(a, b) == IF a <= b THEN a ELSE b

AfterMoves(p, mvs) == {apply_move(p, mv[1], mv[2]) : mv \in mvs}

\* the positions a legal play of the roll ends in: as many dice as can be
\* played, and the higher die when only one of two can be
MaximalLegalPositions(p, d) ==
    LET longest == LongestLegal(p, d)
    IN  IF longest = 0 THEN {}
        ELSE IF longest = 1 /\ d[1] # d[2]
        THEN IF RuleMoves(p, Max(d[1], d[2])) # {}
             THEN AfterMoves(p, RuleMoves(p, Max(d[1], d[2])))
             ELSE AfterMoves(p, RuleMoves(p, Min(d[1], d[2])))
        ELSE {r[2] : r \in {x \in LegalReach(p, d) : x[1] = longest}}

\* generate_plays() has just returned plays for position and match.dice
Generated == last.op = "generate_plays" /\ last.outcome = "ok"

\* the position the i-th move of a play is made from
PositionBefore(pl, i) == ApplyMoves(position, MovePairs(SubSeq(pl.moves, 1, i - 1)))

\* C4: all plays returned by one generate_plays() call have the same number
\* of moves, and no returned play is shorter than any legal sequence of
\* die-moves that can be played from the position with the roll.
C4_SameLengthAndLongest ==
    Generated =>
        /\ \A i, j \in 1..Len(plays) : Len(plays[i].moves) = Len(plays[j].moves)
        /\ \E longest \in {LongestLegal(position, match.dice)} :
               \A i \in 1..Len(plays) : Len(plays[i].moves) >= longest

\* two-move plays were returned although one of the dice, played first,
\* leaves no move for the other
C4_Witness ==
    /\ Generated
    /\ Len(plays) > 0
    /\ Len(plays[1].moves) = 2
    /\ \E dice \in RollOrders(match.dice) :
       \E mv \in RuleMoves(position, dice[1]) :
           RuleMoves(apply_move(position, mv[1], mv[2]), dice[2]) = {}

\* C5: for a non-double roll from which no two-move play exists: if a legal
\* single move uses the higher die, every returned play uses the higher die
\* (and plays are returned); if only the lower die can be played, the
\* lower-die plays are returned.
C5_HigherDieAlone ==
    (Generated /\ match.dice[1] # match.dice[2]
               /\ LongestLegal(position, match.dice) <= 1) =>
        \E higher \in {Max(match.dice[1], match.dice[2])} :
        \E lower \in {Min(match.dice[1], match.dice[2])} :
            /\ RuleMoves(position, higher) # {} =>
                   /\ Len(plays) > 0
                   /\ \A i \in 1..Len(plays) :
                          Len(plays[i].moves) = 1 /\ plays[i].moves[1].pips = higher
            /\ (RuleMoves(position, higher) = {} /\ RuleMoves(position, lower) # {}) =>
                   /\ {plays[i].position : i \in 1..Len(plays)}
                          = AfterMoves(position, RuleMoves(position, lower))
                   /\ \A i \in 1..Len(plays) :
                          Len(plays[i].moves) = 1 /\ plays[i].moves[1].pips = lower

\* each die can be played alone, the two cannot both be played, and the
\* generator has returned
C5_Witness ==
    /\ Generated
    /\ match.dice[1] # match.dice[2]
    /\ LongestLegal(position, match.dice) = 1
    /\ RuleMoves(position, match.dice[1]) # {}
    /\ RuleMoves(position, match.dice[2]) # {}
    /\ Len(plays) > 0

\* C6: in every returned play, a move is a bar entry (source absent) exactly
\* when the player has a checker on the bar as the move is made: no checker
\* on a point moves before every bar checker has entered, and the mode is
\* evaluated again before each die.
C6_BarEntriesFirst ==
    Generated =>
        \A k \in 1..Len(plays) : \A i \in 1..Len(plays[k].moves) :
            \E before \in {PositionBefore(plays[k], i)} :
                before.player_bar > 0 <=> plays[k].moves[i].source = None

\* a returned play enters from the bar and then moves a checker from a point
C6_Witness ==
    /\ Generated
    /\ \E k \in 1..Len(plays) :
          /\ Len(plays[k].moves) >= 2
          /\ plays[k].moves[1].source = None
          /\ plays[k].moves[2].source # None

\* C7: in every returned play, a bear-off move (destination absent) is made
\* only when the player has no checker on the bar and none outside the home
\* quadrant (home checkers + player_off = 15) as the move is made; and no
\* move lands on a point holding 2 or more opponent checkers.
C7_BearOffAndBlockedPoints ==
    Generated =>
        \A k \in 1..Len(plays) : \A i \in 1..Len(plays[k].moves) :
            \E before \in {PositionBefore(plays[k], i)} :
            \E destination \in {plays[k].moves[i].destination} :
                /\ destination = None =>
                       /\ NoneOutsideHome(before)
                       /\ SumRange(player_home(before), 0, POINTS_PER_QUADRANT - 1)
                              + before.player_off = CHECKERS
                /\ destination # None => before.board_points[destination] > -2

\* a returned play brings the last outside checker home and then bears a
\* checker off, while the opponent holds a point the roll could reach
C7_Witness ==
    /\ Generated
    /\ \E k \in 1..Len(plays) :
          /\ Len(plays[k].moves) >= 2
          /\ plays[k].moves[1].source >= POINTS_PER_QUADRANT
          /\ plays[k].moves[2].destination = None
    /\ \E point \in 0..(POINTS - 1) : position.board_points[point] <= -2

\* every entry point is held by 2 or more opponent checkers
Closed(p) ==
    \A point \in (POINTS - POINTS_PER_QUADRANT)..(POINTS - 1) : p.board_points[point] <= -2

Rolled(d) == d \in DieFaces \X DieFaces

\* C8: if the player has a checker on the bar and the opponent holds 2 or
\* more checkers on every entry point, generate_plays() returns the empty
\* list for every rolled pair, and skip() succeeds.
C8_ClosedBoard ==
    [][(position.player_bar > 0 /\ Closed(position) /\ Rolled(match.dice)) =>
           /\ last'.op = "generate_plays" => (last'.outcome = "ok" /\ plays' = << >>)
           /\ last'.op = "skip" => last'.outcome = "ok"]_vars

\* generate_plays() returned the empty list and skip() then passed the turn:
\* the bar checker and the closed board are now the opponent's side
C8_Witness ==
    /\ last.op = "skip"
    /\ last.outcome = "ok"
    /\ steps = 2
    /\ plays = << >>
    /\ position.opponent_bar > 0
    /\ \A point \in HomePoints : position.board_points[point] >= 2

\* C9: generate_plays() returns at most one play per resulting position, and
\* every position a maximal legal move sequence for the roll leads to is the
\* resulting position of some returned play.
C9_OnePlayPerPosition ==
    Generated =>
        /\ \A i, j \in 1..Len(plays) :
               i # j => plays[i].position # plays[j].position
        /\ \A q \in MaximalLegalPositions(position, match.dice) :
               \E i \in 1..Len(plays) : plays[i].position = q

\* the two orders of a non-double roll lead to one position, which the
\* generator returned once
C9_Witness ==
    /\ Generated
    /\ match.dice[1] # match.dice[2]
    /\ Len(plays) > 0
    /\ \E r \in RuleReach(position, match.dice)
                   \cap RuleReach(position, Reverse(match.dice)) : r[1] = 2

\* the player's checkers stand on points 3 and 4 only (board_points 2 and
\* 3), at least one on each
OnPoints3And4Only(p) ==
    /\ p.player_bar = 0
    /\ p.board_points[2] > 0 /\ p.board_points[3] > 0
    /\ \A i \in 0..(POINTS - 1) : i \notin {2, 3} => p.board_points[i] <= 0

\* generate_plays() was called on such a Position with the roll (4, 3)
BearOffScenario ==
    /\ Generated
    /\ OnPoints3And4Only(position)
    /\ match.dice = <<4, 3>>

\* the plays returned are one play, which bears off a checker from each of
\* the two points
OnlyBearsOffBoth ==
    /\ Len(plays) = 1
    /\ Len(plays[1].moves) = 2
    /\ {<<mv.pips, mv.source, mv.destination>> :
            mv \in {plays[1].moves[1], plays[1].moves[2]}}
          = {<<4, 3, None>>, <<3, 2, None>>}
    /\ plays[1].position.player_off = position.player_off + 2
    /\ plays[1].position
          = [position EXCEPT !.player_off = @ + 2,
                             !.board_points[2] = @ - 1,
                             !.board_points[3] = @ - 1]

\* C29 as stated: for every Position whose player checkers are only on home
\* points 3 and 4 and a roll of (4,3), generate_plays() returns exactly one
\* play, the one bearing off a checker from each of those two points, with
\* player_off 2 higher in the resulting Position.
C29_BearOffAsStated == BearOffScenario => OnlyBearsOffBoth

\* C29: for every Position whose player checkers are only on home points 3
\* and 4, whose point 1 is held by two or more opponent checkers, and a roll
\* of (4,3), generate_plays() returns exactly one play, the one bearing off
\* a checker from each of those two points, with player_off 2 higher in the
\* resulting Position; when point 1 is not held, the play that moves a
\* checker from point 4 to point 1 is returned as well.
C29_BearOff ==
    BearOffScenario =>
        IF position.board_points[0] <= -2
        THEN OnlyBearsOffBoth
        ELSE /\ Len(plays) = 2
             /\ \E k \in 1..2 :
                   \E i \in 1..Len(plays[k].moves) :
                      /\ plays[k].moves[i].source = 3
                      /\ plays[k].moves[i].destination = 0

\* the one play of test_bear_off was returned for a Position with one
\* checker on point 3 and two on point 4, point 1 held by the opponent
C29_Witness ==
    /\ BearOffScenario
    /\ position.board_points[0] <= -2
    /\ position.board_points[2] = 1 /\ position.board_points[3] = 2
    /\ Len(plays) = 1
    /\ plays[1].position.player_off = position.player_off + 2

\* two plays were returned, point 1 being free
C29_WitnessOpenPoint ==
    /\ BearOffScenario
    /\ position.board_points[0] = 0
    /\ Len(plays) = 2

\* the destination of mv is where its pips take the checker: 24 - pips from
\* the bar, nowhere (None) when the checker is borne off, source - pips
\* otherwise
DestinationFits(mv) ==
    IF mv.source = None
    THEN mv.destination = POINTS - mv.pips
    ELSE IF mv.destination = None
         THEN mv.source - mv.pips < 0
         ELSE mv.destination = mv.source - mv.pips

\* C37: every play returned by generate_plays() has at least one move,
\* applying its moves in order with apply_move to the current Position
\* yields exactly the play's Position, and each move's destination is
\* source - pips (24 - pips for a bar entry, None for a bear-off).
C37_PlaysSelfConsistent ==
    Generated =>
        \A i \in 1..Len(plays) :
            /\ Len(plays[i].moves) >= 1
            /\ ApplyMoves(position, MovePairs(plays[i].moves)) = plays[i].position
            /\ \A j \in 1..Len(plays[i].moves) : DestinationFits(plays[i].moves[j])

\* a returned play enters a checker from the bar and moves a checker from a
\* point, hitting a blot on the way
C37_Witness ==
    /\ Generated
    /\ \E i \in 1..Len(plays) :
          /\ Len(plays[i].moves) = 2
          /\ plays[i].moves[1].source = None
          /\ plays[i].moves[2].source # None
          /\ plays[i].moves[2].destination # None
          /\ plays[i].position.opponent_bar > position.opponent_bar

\* a returned play bears a checker off with a die larger than needed
C37_WitnessBearOff ==
    /\ Generated
    /\ \E i \in 1..Len(plays) :
       \E j \in 1..Len(plays[i].moves) :
          /\ plays[i].moves[j].destination = None
          /\ plays[i].moves[j].source - plays[i].moves[j].pips < -1

\* the pips of the moves of a play, in order
PipsOf(pl) == [j \in 1..Len(pl.moves) |-> pl.moves[j].pips]

\* C38: no returned play uses a die more often than it was rolled: for a
\* non-double roll a play has at most 2 moves, whose pips are distinct dice
\* of the roll; for a double (a, a) a play has at most 4 moves, all with
\* pips = a.  The search is as deep as the play is long, so its depth is
\* bounded by the number of dice.
C38_DiceUsedAsRolled ==
    Generated =>
        \A i \in 1..Len(plays) :
            LET pips == PipsOf(plays[i])
            IN  IF match.dice[1] # match.dice[2]
                THEN /\ Len(pips) <= 2
                     /\ \A j \in 1..Len(pips) : pips[j] \in {match.dice[1], match.dice[2]}
                     /\ Len(pips) = 2 => pips[1] # pips[2]
                ELSE /\ Len(pips) <= 4
                     /\ \A j \in 1..Len(pips) : pips[j] = match.dice[1]

\* a double has been rolled and a play of four moves generated
C38_Witness ==
    /\ Generated
    /\ match.dice[1] = match.dice[2]
    /\ \E i \in 1..Len(plays) : Len(plays[i].moves) = 4

\* a non-double roll has been played with both dice, the lower one first
C38_WitnessBothOrders ==
    /\ Generated
    /\ match.dice[1] > match.dice[2]
    /\ \E i \in 1..Len(plays) :
          /\ Len(plays[i].moves) = 2
          /\ plays[i].moves[1].pips = match.dice[2]

-----------------------------------------------------------------------------
(* Properties of the cube, resignation, skip and roll operations           *)

\* C11: double() fails when the dice are set (not (0, 0)), when the cube is
\* held by the opponent of the player on roll, or when the crawford flag is
\* true; in each of these cases no double becomes pending (the double flag
\* stays as it was).
C11_DoubleRefused ==
    [][(/\ last'.op = "double"
        /\ \/ match.dice # <<0, 0>>
           \/ match.cube_holder # CENTERED /\ match.cube_holder # match.player
           \/ match.crawford)
           => last'.outcome = "BackgammonError" /\ match'.double = match.double]_vars

\* a double refused for the Crawford game alone: dice unset, cube centered,
\* no double pending, the cube not dead
C11_Witness ==
    /\ last.op = "double"
    /\ last.outcome = "BackgammonError"
    /\ match.crawford
    /\ DoubleOtherwiseAllowed([match EXCEPT !.crawford = FALSE])
    /\ DoublerScore(match) + match.cube_value < match.length
    /\ ~match.double

OtherPlayer(pl) == IF pl = ONE THEN ZERO ELSE ONE

C13_AcceptDouble ==
    [][last'.op = "accept_double"
         => IF match.double
            THEN /\ last'.outcome = "ok"
                 /\ match'.cube_value = 2 * match.cube_value
                 /\ match'.cube_holder = OtherPlayer(match.player)
                 /\ ~match'.double
                 /\ match'.turn = match.player
                 /\ double_result(position', match').outcome = "BackgammonError"
            ELSE last'.outcome = "BackgammonError"]_vars

\* C13 where it holds: the double is accepted while turn is with the
\* opponent of the player on roll, where double() leaves it when turn was
\* with the player on roll at the offer
C13_AcceptDoubleOnOpponentsTurn ==
    [][(last'.op = "accept_double" /\ (match.double => match.turn # match.player))
         => IF match.double
            THEN /\ last'.outcome = "ok"
                 /\ match'.cube_value = 2 * match.cube_value
                 /\ match'.cube_holder = OtherPlayer(match.player)
                 /\ ~match'.double
                 /\ match'.turn = match.player
                 /\ double_result(position', match').outcome = "BackgammonError"
            ELSE last'.outcome = "BackgammonError"]_vars

\* a double offered with a resignation pending has been accepted: the cube is
\* with the doubler, who may double again
C13_Witness ==
    /\ last.op = "accept_double"
    /\ last.prior = "double"
    /\ last.outcome = "ok"
    /\ match.cube_holder = match.player
    /\ double_result(position, match).outcome = "ok"

ScoreOf(m, pl) == IF pl = ZERO THEN m.player_0_score ELSE m.player_1_score

\* the dice and the players of m are those of an opening roll
OpeningRolled(m) ==
    /\ m.dice \in FirstRolls
    /\ m.player = (IF m.dice[1] > m.dice[2] THEN ZERO ELSE ONE)
    /\ m.turn = m.player

\* C14: reject_double() with a double pending adds the current cube_value to
\* the score of the doubler (the player on roll) and leaves the other
\* player's score unchanged; if neither score then reaches the match length
\* the cube is reset to value 1 centered, the Position becomes the starting
\* Position and an opening roll is made; if a score reaches the length
\* game_state becomes dropped_cube and no new game is started (Position, dice,
\* cube, player and turn stay). With no double pending it fails.
C14_RejectDouble ==
    [][last'.op = "reject_double"
         => IF ~match.double
            THEN last'.outcome = "BackgammonError"
            ELSE /\ last'.outcome = "ok"
                 /\ ~match'.double
                 /\ ScoreOf(match', match.player)
                        = ScoreOf(match, match.player) + match.cube_value
                 /\ ScoreOf(match', OtherPlayer(match.player))
                        = ScoreOf(match, OtherPlayer(match.player))
                 /\ IF /\ match'.player_0_score < match.length
                       /\ match'.player_1_score < match.length
                    THEN /\ match'.cube_value = 1
                         /\ match'.cube_holder = CENTERED
                         /\ position' = StartingPosition
                         /\ OpeningRolled(match')
                         /\ match'.game_state = PLAYING
                    ELSE /\ match'.game_state = DROPPED_CUBE
                         /\ position' = position
                         /\ match'.dice = match.dice
                         /\ match'.cube_value = match.cube_value
                         /\ match'.cube_holder = match.cube_holder
                         /\ match'.player = match.player
                         /\ match'.turn = match.turn]_vars

\* a rejected double has ended the match
C14_Witness ==
    /\ last.op = "reject_double"
    /\ last.outcome = "ok"
    /\ match.game_state = DROPPED_CUBE
    /\ ScoreOf(match, match.player) >= match.length
    /\ ScoreOf(match, OtherPlayer(match.player)) < match.length

\* a rejected double has started the next game
C14_WitnessNewGame ==
    /\ last.op = "reject_double"
    /\ last.outcome = "ok"
    /\ match.game_state = PLAYING
    /\ match.player_0_score + match.player_1_score > 0
    /\ position = StartingPosition

\* C15: resign(kind), kind single, gammon or backgammon, fails while a
\* resignation is pending and otherwise records the offer and passes the turn
\* without touching the scores; an accept_resignation() made next adds
\* cube_value x kind (1, 2 or 3) to the score of the opponent of the player
\* who resigned (the player who had the turn at the resign call), leaves the
\* resigner's score unchanged and clears the offer; accept_resignation() and
\* reject_resignation() fail when no resignation is pending.
C15_Resignation ==
    [][/\ last'.op = "resign"
            => IF match.resign # RESIGN_NONE
               THEN last'.outcome = "BackgammonError"
               ELSE /\ last'.outcome = "ok"
                    /\ match'.resign = last'.arg
                    /\ match'.turn = OtherPlayer(match.turn)
                    /\ match'.player_0_score = match.player_0_score
                    /\ match'.player_1_score = match.player_1_score
       /\ (last.op = "resign" /\ last.outcome = "ok" /\ last'.op = "accept_resignation")
            => /\ last'.outcome = "ok"
               /\ last.arg \in {1, 2, 3}
               /\ ScoreOf(match', match.turn)
                      = ScoreOf(match, match.turn) + match.cube_value * last.arg
               /\ ScoreOf(match', OtherPlayer(match.turn))
                      = ScoreOf(match, OtherPlayer(match.turn))
               /\ match'.resign = RESIGN_NONE
       /\ (last'.op \in {"accept_resignation", "reject_resignation"}
             /\ match.resign = RESIGN_NONE)
            => last'.outcome = "BackgammonError"]_vars

\* a resigned backgammon has been accepted at 0-0 with the cube at 1: three
\* points to one player, none to the other, and the next game begun
C15_Witness ==
    /\ last.op = "accept_resignation"
    /\ last.prior = "resign"
    /\ last.outcome = "ok"
    /\ match.resign = RESIGN_NONE
    /\ {match.player_0_score, match.player_1_score} = {0, 3}
    /\ position = StartingPosition

\* C16: skip() succeeds exactly when generate_plays() returns no play for the
\* current Position and dice (where a generate_plays() call came just before,
\* exactly when the list it returned is empty); on success the Position is
\* swapped to the other perspective with no checker moved, player and turn
\* are both the other player, the dice are (0, 0) and no other Match field
\* changes; when a play exists skip() fails with the engine error and changes
\* nothing.
C16_SkipWhenNoPlay ==
    [][last'.op = "skip"
         => \E raw \in {raw_plays(position, match.dice)} :
               LET raised == raises_in(raw)
                   empty == ~raised /\ Len(returned_plays(raw, match.dice)) = 0
               IN  /\ (last'.outcome = "ok") <=> empty
                   /\ (last.op = "generate_plays" /\ last.outcome = "ok")
                         => (empty <=> plays = << >>)
                   /\ empty
                         => /\ position' = Position_swap_players(position)
                            /\ match' = [match EXCEPT
                                            !.player = OtherPlayer(match.player),
                                            !.turn = OtherPlayer(match.player),
                                            !.dice = <<0, 0>>]
                   /\ (~raised /\ ~empty)
                         => /\ last'.outcome = "BackgammonError"
                            /\ position' = position
                            /\ match' = match]_vars

\* a skip made after generate_plays() returned no play
C16_Witness ==
    /\ last.op = "skip"
    /\ last.prior = "generate_plays"
    /\ last.outcome = "ok"
    /\ plays = << >>
    /\ match.dice = <<0, 0>>
    /\ match.player = ZERO /\ match.turn = ZERO

\* C17: roll() fails whenever the dice are not (0, 0), leaving everything as
\* it was; otherwise it succeeds, each die is a value in 1..6, and no other
\* Match field and not the Position changes.
C17_Roll ==
    [][last'.op = "roll"
         => IF match.dice # <<0, 0>>
            THEN /\ last'.outcome = "BackgammonError"
                 /\ match' = match
                 /\ position' = position
            ELSE /\ last'.outcome = "ok"
                 /\ match'.dice[1] \in 1..6
                 /\ match'.dice[2] \in 1..6
                 /\ [match' EXCEPT !.dice = <<0, 0>>] = match
                 /\ position' = position]_vars

\* a roll made on unset dice; the two dice may be equal
C17_Witness ==
    /\ last.op = "roll"
    /\ last.outcome = "ok"
    /\ match.dice = <<6, 6>>

\* C19: start(length), called in any engine state, leaves the match at match
\* start: both scores 0, cube_value 1 with the cube centered, no double and
\* no resignation pending, crawford false, game_state playing, length set to
\* the argument, and an opening roll made.
C19_StartResetsMatch ==
    [][last'.op = "start"
         => /\ last'.outcome = "ok"
            /\ match'.player_0_score = 0
            /\ match'.player_1_score = 0
            /\ match'.cube_value = 1
            /\ match'.cube_holder = CENTERED
            /\ ~match'.double
            /\ match'.resign = RESIGN_NONE
            /\ ~match'.crawford
            /\ match'.game_state = PLAYING
            /\ match'.length = last'.arg
            /\ OpeningRolled(match')]_vars

\* C19 as the code has it: start(length) sets game_state to playing and
\* length to the argument and makes an opening roll; the scores, the cube,
\* a pending double or resignation, crawford and the Position stay as they
\* were.
C19_StartAsCoded ==
    [][last'.op = "start"
         => /\ last'.outcome = "ok"
            /\ match'.game_state = PLAYING
            /\ match'.length = last'.arg
            /\ OpeningRolled(match')
            /\ [match' EXCEPT !.game_state = match.game_state,
                              !.length = match.length,
                              !.dice = match.dice,
                              !.player = match.player,
                              !.turn = match.turn] = match
            /\ position' = position]_vars

\* start() has returned after a game that was resigned: the points of that
\* game are still on the score
C19_Witness ==
    /\ last.op = "start"
    /\ last.prior = "accept_resignation"
    /\ last.outcome = "ok"
    /\ match.game_state = PLAYING
    /\ match.player_0_score + match.player_1_score > 0

\* the multiplier of a game won in position p (the winner is the player of
\* p): 3 when the opponent has borne off none and has a checker on the bar
\* or in the winner's home quadrant, 2 when the opponent has borne off none
\* otherwise, 1 when the opponent has borne off a checker
WinMultiplier(p) ==
    IF p.opponent_off > 0 THEN 1
    ELSE IF p.opponent_bar > 0
            \/ \E i \in 0..(POINTS_PER_QUADRANT - 1) : p.board_points[i] < 0
         THEN 3
         ELSE 2

\* a successful play has the effect the claim gives it, the points of a won
\* game going to `scorer`
PlayEffect(scorer) ==
    LET new_position == ApplyMoves(position, last'.moves)
    IN  IF new_position.player_off = CHECKERS
        THEN /\ ScoreOf(match', scorer) = ScoreOf(match, scorer)
                    + match.cube_value * WinMultiplier(new_position)
             /\ ScoreOf(match', OtherPlayer(scorer))
                    = ScoreOf(match, OtherPlayer(scorer))
             /\ \/ match'.game_state = GAME_OVER
                \/ position' = StartingPosition /\ OpeningRolled(match')
        ELSE /\ match'.player_0_score = match.player_0_score
             /\ match'.player_1_score = match.player_1_score
             /\ position' = Position_swap_players(new_position)
             /\ match'.player = OtherPlayer(match.player)
             /\ match'.turn = OtherPlayer(match.player)
             /\ match'.dice = <<0, 0>>

\* C20: a successful play() that leaves the player with all 15 checkers borne
\* off ends the game and adds cube_value x m to the score of the player who
\* made the play (the player on roll), the opponent's score unchanged, with
\* m = 3 if the opponent has borne off none and has a checker on the bar or
\* in the winner's home quadrant, m = 2 if the opponent has borne off none
\* otherwise, m = 1 if the opponent has borne off at least one; any other
\* successful play ends the turn without changing the scores.
C20_WinningPlayScores ==
    [][(last'.op = "play" /\ last'.outcome = "ok") => PlayEffect(match.player)]_vars

\* C20 as the code has it: the points of a won game go to the player who has
\* the turn, who is the player on roll unless a double or a resignation is
\* pending.
C20_WinningPlayCreditsTurn ==
    [][(last'.op = "play" /\ last'.outcome = "ok") => PlayEffect(match.turn)]_vars

\* a game won by a play made while a resignation was pending: every engine
\* from which a game can be won this early has Player ONE on roll, and the
\* points are on Player ZERO's score
C20_Witness ==
    /\ last.op = "play"
    /\ last.prior = "resign"
    /\ last.outcome = "ok"
    /\ position = StartingPosition
    /\ match.player_0_score > 0
    /\ match.player_1_score = 0

\* the step is a call that ran end_game: an accepted resignation, or a play
\* that bore off the player's last checker
EndGameStep ==
    /\ last'.outcome = "ok"
    /\ \/ last'.op = "accept_resignation"
       \/ /\ last'.op = "play"
          /\ ApplyMoves(position, last'.moves).player_off = CHECKERS

\* the players whose score the step raised
Scorers == {pl \in {ZERO, ONE} : ScoreOf(match', pl) > ScoreOf(match, pl)}

\* C21: after end_game (a winning play or an accepted resignation) crawford
\* is true exactly when the scorer's new score equals length - 1 and the
\* opponent's score is less than length - 1; in every other case it is false.
C21_CrawfordAfterEndGame ==
    [][EndGameStep
         => /\ Cardinality(Scorers) = 1
            /\ \A pl \in Scorers :
                  match'.crawford
                     <=> /\ ScoreOf(match', pl) = match'.length - 1
                         /\ ScoreOf(match', OtherPlayer(pl)) < match'.length - 1]_vars

\* an accepted resignation has brought the scorer to one point from the
\* match with the opponent further away: the next game is the Crawford game
C21_Witness ==
    /\ last.op = "accept_resignation"
    /\ last.prior = "resign"
    /\ last.outcome = "ok"
    /\ match.crawford
    /\ match.game_state = PLAYING
    /\ \E pl \in {ZERO, ONE} :
          /\ ScoreOf(match, pl) = match.length - 1
          /\ ScoreOf(match, OtherPlayer(pl)) < match.length - 1

\* the step is a rejected double
DroppedCubeStep ==
    last'.op = "reject_double" /\ last'.outcome = "ok"

\* the step brought a player to exactly length - 1 with the opponent further
\* from the length, and the match goes on
ReachedMatchPoint ==
    /\ match'.game_state = PLAYING
    /\ \E pl \in Scorers :
          /\ ScoreOf(match', pl) = match'.length - 1
          /\ ScoreOf(match', OtherPlayer(pl)) < match'.length - 1

\* the game that begins is a Crawford game: crawford is true and double()
\* fails, also once the dice are unset
CrawfordGameBegins ==
    /\ match'.crawford
    /\ double_result(position', match').outcome = "BackgammonError"
    /\ double_result(position', [match' EXCEPT !.dice = <<0, 0>>]).outcome
           = "BackgammonError"

\* C22: whenever a game ends by any means (winning play, accepted
\* resignation or rejected double) with a player's score reaching exactly
\* length - 1 for the first time while the opponent is further from the
\* length, and the match continues, the game that follows is a Crawford game:
\* crawford is true and double() fails in it.
C22_CrawfordRule ==
    [][((EndGameStep \/ DroppedCubeStep) /\ ReachedMatchPoint)
         => CrawfordGameBegins]_vars

\* C22 for the games that end through end_game (a winning play or an accepted
\* resignation), where it holds
C22_CrawfordRuleAfterEndGame ==
    [][(EndGameStep /\ ReachedMatchPoint) => CrawfordGameBegins]_vars

\* a rejected double has brought the doubler to one point from the match, the
\* opponent further away; the next game has begun and is not a Crawford game
C22_Witness ==
    /\ last.op = "reject_double"
    /\ last.prior = "double"
    /\ last.outcome = "ok"
    /\ match.game_state = PLAYING
    /\ position = StartingPosition
    /\ \E pl \in {ZERO, ONE} :
          /\ ScoreOf(match, pl) = match.length - 1
          /\ ScoreOf(match, OtherPlayer(pl)) < match.length - 1
    /\ ~match.crawford

\* the Position a game-ending call leaves when no new game starts: the one
\* the winning play made, or the one the resignation was accepted in
FinalPosition ==
    IF last'.op = "play" THEN ApplyMoves(position, last'.moves) ELSE position

\* C23: when end_game leaves both scores below the match length the next
\* game starts clean: cube_value is 1 and the cube is centered, the Position
\* is the starting Position, no double and no resignation is pending, and the
\* dice hold an opening roll of two different values with player and turn
\* both the owner of the higher die.  When a score reaches the length
\* game_state becomes game_over and no new game is started (the Position is
\* the final one; dice, cube, player and turn are as they were).
C23_NextGameStartsClean ==
    [][EndGameStep
         => IF /\ match'.player_0_score < match'.length
               /\ match'.player_1_score < match'.length
            THEN /\ match'.cube_value = 1
                 /\ match'.cube_holder = CENTERED
                 /\ position' = StartingPosition
                 /\ ~match'.double
                 /\ match'.resign = RESIGN_NONE
                 /\ OpeningRolled(match')
                 /\ match'.game_state = PLAYING
            ELSE /\ match'.game_state = GAME_OVER
                 /\ position' = FinalPosition
                 /\ ~match'.double
                 /\ match'.resign = RESIGN_NONE
                 /\ match'.dice = match.dice
                 /\ match'.cube_value = match.cube_value
                 /\ match'.cube_holder = match.cube_holder
                 /\ match'.player = match.player
                 /\ match'.turn = match.turn]_vars

\* a game played with the cube at 2 has been resigned and accepted short of
\* the match: the next game has begun with the cube back at 1 in the centre
C23_Witness ==
    /\ last.op = "accept_resignation"
    /\ last.prior = "resign"
    /\ last.outcome = "ok"
    /\ match.game_state = PLAYING
    /\ match.length = 7
    /\ match.player_0_score + match.player_1_score \in {4, 6}
    /\ match.player_0_score * match.player_1_score = 0
    /\ match.cube_value = 1 /\ match.cube_holder = CENTERED
    /\ position = StartingPosition

\* a game has ended the match: no new game
C23_WitnessGameOver ==
    /\ last.op \in {"play", "accept_resignation"}
    /\ last.outcome = "ok"
    /\ match.game_state = GAME_OVER
    /\ position # StartingPosition

\* the step is a call that ran end_turn: a successful skip, or a successful
\* play that did not bear off the player's last checker
EndTurnStep ==
    /\ last'.outcome = "ok"
    /\ \/ last'.op = "skip"
       \/ /\ last'.op = "play"
          /\ ApplyMoves(position, last'.moves).player_off # CHECKERS

\* the Position end_turn is called with: the one the play has assigned, or
\* for skip the engine's
PositionAtEndTurn ==
    IF last'.op = "play" THEN ApplyMoves(position, last'.moves) ELSE position

\* C24: end_turn() replaces the Position by its swap_players() image, sets
\* player and turn both to the player who was not on roll, and clears the
\* dice to (0, 0); it leaves cube_value, cube_holder, both scores, length,
\* crawford and game_state (and the pending double and resignation)
\* unchanged.
C24_EndTurnFrame ==
    [][EndTurnStep
         => /\ position' = Position_swap_players(PositionAtEndTurn)
            /\ match'.player = OtherPlayer(match.player)
            /\ match'.turn = OtherPlayer(match.player)
            /\ match'.dice = <<0, 0>>
            /\ match'.cube_value = match.cube_value
            /\ match'.cube_holder = match.cube_holder
            /\ match'.player_0_score = match.player_0_score
            /\ match'.player_1_score = match.player_1_score
            /\ match'.length = match.length
            /\ match'.crawford = match.crawford
            /\ match'.game_state = match.game_state
            /\ match'.double = match.double
            /\ match'.resign = match.resign]_vars

\* a turn ended by a play made while a resignation was pending (turn was not
\* with the player on roll): player and turn are the same player after it
C24_Witness ==
    /\ last.op = "play"
    /\ last.prior = "resign"
    /\ last.outcome = "ok"
    /\ Len(last.moves) > 0
    /\ match.resign # RESIGN_NONE
    /\ match.dice = <<0, 0>>
    /\ match.player = match.turn

\* n is a power of two, 1 included
PowerOfTwo(n) == \E k \in 0..20 : n = 2 ^ k

\* the step is a successful call that started a new game
NewGameStarts ==
    /\ last'.op \in {"play", "accept_resignation", "reject_double"}
    /\ last'.outcome = "ok"
    /\ match'.game_state = PLAYING
    /\ position' = StartingPosition
    /\ OpeningRolled(match')

\* C30: cube_value is a power of two >= 1 in every state reached from a
\* decoded match by controller operations; a successful accept_double
\* doubles it, and it changes in no other way than by that doubling and by
\* the reset to 1 when a new game starts.
C30_CubeValue ==
    [][/\ PowerOfTwo(match.cube_value)
       /\ PowerOfTwo(match'.cube_value)
       /\ (last'.op = "accept_double" /\ last'.outcome = "ok")
             => match'.cube_value = 2 * match.cube_value
       /\ match'.cube_value # match.cube_value
             => \/ /\ last'.op = "accept_double"
                   /\ match'.cube_value = 2 * match.cube_value
                \/ /\ NewGameStarts
                   /\ match'.cube_value = 1]_vars

\* a cube already turned has been doubled again
C30_Witness ==
    /\ last.op = "accept_double"
    /\ last.outcome = "ok"
    /\ match.cube_value >= 4

\* a cube at 2 has been dropped (2 points scored) and has gone back to 1
\* with the next game
C30_WitnessReset ==
    /\ last.prior = "double"
    /\ last.op = "reject_double"
    /\ last.outcome = "ok"
    /\ match.length = 3
    /\ match.player_0_score + match.player_1_score = 2
    /\ match.cube_value = 1
    /\ position = StartingPosition

\* the step is a successful play() or skip()
TurnEndingCall == last'.op \in {"play", "skip"} /\ last'.outcome = "ok"

\* the call before was a successful play() or skip() that did not start a
\* new game (a new game begins with the dice of the opening roll)
TurnJustEnded ==
    /\ last.op \in {"play", "skip"}
    /\ last.outcome = "ok"
    /\ match.dice = <<0, 0>>

\* C31: play() never succeeds while the dice are unset ((0,0)); within a
\* game no successful play or skip follows a successful play or skip
\* without a roll in between, so a turn cannot be ended (for example with
\* an empty move list) without having rolled.
C31_PlayNeedsRoll ==
    [][/\ (last'.op = "play" /\ last'.outcome = "ok") => match.dice # <<0, 0>>
       /\ TurnJustEnded => ~TurnEndingCall]_vars

\* the empty move list has been played with the dice unset, straight after
\* the opponent's play
C31_Witness ==
    /\ last.op = "play"
    /\ last.outcome = "ok"
    /\ last.prior = "play"
    /\ last.moves = << >>
    /\ match.dice = <<0, 0>>
    /\ match.game_state = PLAYING

\* C32: while a double is pending (match.double is true) roll() and play()
\* do not succeed, and the dice and the Position stay as they are until
\* accept_double() or reject_double() resolves the offer.
C32_NoRollOrPlayWhileDoubled ==
    [][match.double
         => /\ last'.op \in {"roll", "play"} => last'.outcome # "ok"
            /\ last'.op \notin {"accept_double", "reject_double"}
                  => /\ match'.dice = match.dice
                     /\ position' = position]_vars

\* the dice have been rolled with the double still pending
C32_Witness ==
    /\ last.op = "roll"
    /\ last.outcome = "ok"
    /\ match.double
    /\ match.dice # <<0, 0>>

\* the empty move list has been played with the double still pending
C32_WitnessPlay ==
    /\ last.op = "play"
    /\ last.outcome = "ok"
    /\ last.prior = "double"
    /\ match.double

\* a double and a resignation are both on offer in m
BothOffersPending(m) == m.double /\ m.resign # RESIGN_NONE

\* C33: a double offer and a resignation offer are never pending at the
\* same time, whatever the order of double, resign and their accept and
\* reject operations; and no resignation offer is still pending when a
\* call (reject_double, or end_game within play and accept_resignation)
\* has started the next game.
C33_OffersExclusive ==
    [][/\ ~BothOffersPending(match')
       /\ NewGameStarts => match'.resign = RESIGN_NONE]_vars

\* a double has been offered while a resignation was waiting for its answer
C33_Witness ==
    /\ last.op = "double"
    /\ last.outcome = "ok"
    /\ BothOffersPending(match)

\* a resignation has been offered while a double was waiting for its answer
C33_WitnessResignAfterDouble ==
    /\ last.op = "resign"
    /\ last.prior = "double"
    /\ last.outcome = "ok"
    /\ BothOffersPending(match)

\* the resignation offered in the game before is still pending in the game
\* that reject_double has started
C33_WitnessNextGame ==
    /\ last.op = "reject_double"
    /\ last.outcome = "ok"
    /\ position = StartingPosition
    /\ OpeningRolled(match)
    /\ match.resign # RESIGN_NONE

\* turn and player agree in m as the offers pending require
TurnAgrees(m) ==
    m.game_state = PLAYING
       => /\ (~m.double /\ m.resign = RESIGN_NONE) => m.turn = m.player
          /\ (m.double /\ m.resign = RESIGN_NONE) => m.turn = OtherPlayer(m.player)
          /\ (~m.double /\ m.resign # RESIGN_NONE) => m.turn = OtherPlayer(m.player)

\* every engine starts in a state where turn and player agree
InitialTurnAgrees == steps = 0 => TurnAgrees(match)

\* C34: in every reachable state with game_state playing, turn = player
\* when neither a double nor a resignation is pending, and turn is the
\* opponent of player when exactly one such offer is pending (resign is
\* called only with single, gammon or backgammon).
C34_TurnPlayerAgreement == [][TurnAgrees(match')]_vars

\* the turn has passed to the player on roll with a double still pending
C34_Witness ==
    /\ last.op = "play"
    /\ last.outcome = "ok"
    /\ match.game_state = PLAYING
    /\ match.double /\ match.resign = RESIGN_NONE
    /\ match.turn = match.player

\* start() has left a pending resignation with turn = player
C34_WitnessStart ==
    /\ last.op = "start"
    /\ match.game_state = PLAYING
    /\ ~match.double /\ match.resign # RESIGN_NONE
    /\ match.turn = match.player

\* the match is over in m: a score has reached the match length
MatchOver(m) == m.game_state \in {GAME_OVER, DROPPED_CUBE}

\* C35: once game_state is game_over or dropped_cube no later controller
\* operation changes either player's score, and game_state never returns to
\* playing.
C35_MatchOverIsTerminal ==
    [][MatchOver(match)
         => /\ match'.player_0_score = match.player_0_score
            /\ match'.player_1_score = match.player_1_score
            /\ match'.game_state # PLAYING]_vars

\* a resignation offered and accepted after the end of the match has given
\* the loser points
C35_Witness ==
    /\ last.op = "accept_resignation"
    /\ last.prior = "resign"
    /\ last.outcome = "ok"
    /\ match.game_state = GAME_OVER
    /\ match.length = 1
    /\ match.player_0_score > 0 /\ match.player_1_score > 0

\* start() has put a match that was over back to playing, the scores kept
C35_WitnessStart ==
    /\ last.op = "start"
    /\ last.prior \in {"play", "accept_resignation", "reject_double"}
    /\ match.game_state = PLAYING
    /\ \/ match.player_0_score >= match.length
       \/ match.player_1_score >= match.length

\* a player has reached length - 1 or more in m: the Crawford game is due,
\* being played or past
AtMatchPoint(m) ==
    \E pl \in {ZERO, ONE} : ScoreOf(m, pl) >= m.length - 1

\* the step is a call that ended a game
GameEnds == EndGameStep \/ DroppedCubeStep

C36_WitnessLaterGame ==
    /\ last.op \in {"accept_resignation", "reject_double", "play"}
    /\ last.prior \in {"resign", "double", "roll"}
    /\ last.outcome = "ok"
    /\ match.game_state = PLAYING
    /\ ~match.crawford
    /\ match.player_0_score = match.length - 1
    /\ match.player_1_score = match.length - 1

-----------------------------------------------------------------------------
(* Properties of first_roll(), checked under SpecRoll                      *)

\* C18: after first_roll() returns the two dice are in 1..6 and differ, and
\* player and turn are both Player ZERO if the first die is higher and both
\* Player ONE if the second die is higher; a tied pair is never the dice
\* first_roll() returns with.
C18_FirstRoll ==
    (last.op = "first_roll" /\ last.outcome = "ok")
        => /\ match.dice[1] \in 1..6
           /\ match.dice[2] \in 1..6
           /\ match.dice[1] # match.dice[2]
           /\ match.dice[1] > match.dice[2] => match.player = ZERO /\ match.turn = ZERO
           /\ match.dice[2] > match.dice[1] => match.player = ONE /\ match.turn = ONE

\* first_roll() has returned after a tie was drawn and discarded, and has
\* changed the player on roll
C18_Witness ==
    /\ last.op = "first_roll"
    /\ last.outcome = "ok"
    /\ steps = 2
    /\ match.dice = <<6, 1>>
    /\ match.player = ZERO /\ match.turn = ZERO
    /\ match.length = 5

\* first_roll() is running: in its loop, or past it and before its return
InFirstRoll == last.op = "first_roll" /\ last.outcome \in {"loop", "break"}

\* first_roll() has returned to the operation that called it
FirstRollReturned == last.op = "first_roll" /\ last.outcome = "ok"

\* C40: under fair dice first_roll() eventually terminates, and with it the
\* operation that called it to start a new game (start, end_game or
\* reject_double) eventually completes.
C40_FirstRollTerminates ==
    \A caller \in NewGameCallers :
        (InFirstRoll /\ last.prior = caller)
            ~> (FirstRollReturned /\ last.prior = caller)

\* first_roll() has returned to reject_double after MaxDraws passes or more
C40_Witness ==
    /\ FirstRollReturned
    /\ last.prior = "reject_double"
    /\ steps = MaxDraws
    /\ match.dice[1] # match.dice[2]

-----------------------------------------------------------------------------
(* Properties of the identifier codecs                                     *)

\* C25: for every valid Position (each side's checkers on points, bar and
\* off sum to 15, no point shared) encode() returns an identifier of 14
\* characters of the base64 alphabet, made from a position key of exactly 80
\* bits, and decode() of that identifier returns the Position encoded.
C25_PositionRoundTrip ==
    [][/\ (last'.op = "Position.encode" /\ ValidPosition(position))
            => /\ last'.outcome = "ok"
               /\ Len(key_from_checkers(encode_checkers(position))) = 80
               /\ Len(ident') = 14
               /\ \A i \in 1..Len(ident') : ident'[i] \in B64Chars
       /\ (last'.op = "position.decode" /\ last'.arg = ident /\ ValidPosition(position))
            => /\ last'.outcome = "ok"
               /\ position' = position]_vars

\* the identifier of a Position with checkers of both sides on the points,
\* on the bar and borne off has been decoded
C25_Witness ==
    /\ last.op = "position.decode"
    /\ last.outcome = "ok"
    /\ last.arg = ident
    /\ Len(ident) = 14
    /\ position.player_bar > 0 /\ position.player_off > 0
    /\ position.opponent_off > 0
    /\ \E i \in 0..(POINTS - 1) : position.board_points[i] < 0

\* the identifier base64-decodes to exactly 10 bytes (80 key bits)
DecodesToTenBytes(position_id) ==
    /\ b64decode_padded(position_id).outcome = "ok"
    /\ Len(b64decode_padded(position_id).value) = 10

\* C27: decoding a position identifier fails whenever the identifier does
\* not decode to exactly 10 bytes (80 key bits), and no Position value is
\* produced from such an identifier.
C27_DecodeRefusesOtherLengths ==
    [][(last'.op = "position.decode" /\ ~DecodesToTenBytes(last'.arg))
         => last'.outcome # "ok" /\ position' = position]_vars

\* decode has returned the starting Position from an identifier of 16
\* characters, which holds 12 bytes
C27_Witness ==
    /\ last.op = "position.decode"
    /\ last.outcome = "ok"
    /\ Len(last.arg) = 16
    /\ Len(b64decode_padded(last.arg).value) = 12
    /\ position = StartingPosition

\* a Match that fits the record: cube_value a power of two up to 2^15,
\* player and turn ZERO or ONE, dice 0..6, length and scores below 2^15
ValidMatch(m) ==
    /\ m.cube_value \in {2 ^ k : k \in 0..15}
    /\ m.cube_holder \in {ZERO, ONE, CENTERED}
    /\ m.player \in {ZERO, ONE} /\ m.turn \in {ZERO, ONE}
    /\ m.game_state \in NOT_STARTED..DROPPED_CUBE
    /\ m.resign \in RESIGN_NONE..BACKGAMMON
    /\ m.dice[1] \in 0..6 /\ m.dice[2] \in 0..6
    /\ m.length \in 0..32767
    /\ m.player_0_score \in 0..32767 /\ m.player_1_score \in 0..32767

\* the fields of the record in order, each a << value, width >>
RecordFields(m) ==
    << <<CHOOSE k \in 0..15 : 2 ^ k = m.cube_value, 4>>, <<m.cube_holder, 2>>,
       <<m.player, 1>>, <<IF m.crawford THEN 1 ELSE 0, 1>>, <<m.game_state, 3>>,
       <<m.turn, 1>>, <<IF m.double THEN 1 ELSE 0, 1>>, <<m.resign, 2>>,
       <<m.dice[1], 3>>, <<m.dice[2], 3>>, <<m.length, 15>>,
       <<m.player_0_score, 15>>, <<m.player_1_score, 15>> >>

\* the bits before field i of the record
FieldOffset(m, i) == SumSeq([j \in 1..(i - 1) |-> RecordFields(m)[j][2]])

\* key is the 66-bit record of m: each field at its place, low bit first
IsRecordOf(key, m) ==
    /\ Len(key) = 66
    /\ \A i \in 1..Len(RecordFields(m)) :
          IntOfBits(Reverse(SubSeq(key, FieldOffset(m, i) + 1,
                                   FieldOffset(m, i) + RecordFields(m)[i][2])))
             = RecordFields(m)[i][1]

\* C26: for every valid Match (cube_value a power of two up to 2^15, player
\* and turn ZERO or ONE, dice 0..6, length and scores below 2^15) encode()
\* packs a record of exactly 66 bits, the fields in the documented order and
\* widths, into an identifier of 12 characters, and decode() of that
\* identifier returns the Match encoded.
C26_MatchRoundTrip ==
    [][/\ (last'.op = "Match.encode" /\ ValidMatch(match))
            => /\ last'.outcome = "ok"
               /\ IsRecordOf(match_key(match), match)
               /\ Len(ident') = 12
               /\ \A i \in 1..Len(ident') : ident'[i] \in B64Chars
       /\ (last'.op = "match.decode" /\ last'.arg = ident /\ ValidMatch(match))
            => /\ last'.outcome = "ok"
               /\ match' = match]_vars

\* the identifier of a Match with the largest cube value, length and score,
\* a double offered and dice rolled has been decoded
C26_Witness ==
    /\ last.op = "match.decode"
    /\ last.outcome = "ok"
    /\ last.arg = ident
    /\ Len(ident) = 12
    /\ match.cube_value = 32768
    /\ match.length = 32767 /\ match.player_0_score = 32767
    /\ match.dice = <<6, 6>>
    /\ match.double /\ match.crawford
    /\ match.cube_holder = CENTERED
    /\ match.resign = BACKGAMMON

-----------------------------------------------------------------------------
(* Properties of Position.off(), checked under SpecOff                     *)

\* off() has been called for a home point holding a player checker
OffCalled == last.op = "off" /\ position.board_points[last.arg[1]] > 0

\* a player checker sits on a home point strictly higher than point
HigherChecker(p, point) ==
    \E i \in (point + 1)..(POINTS_PER_QUADRANT - 1) : p.board_points[i] > 0

\* the call returned the Position with the checker of point borne off, and
\* no destination
BorneOff(r, p, point) ==
    /\ r.ok
    /\ r.destination = None
    /\ r.position.player_off = p.player_off + 1
    /\ r.position = [p EXCEPT !.player_off = @ + 1, !.board_points[point] = @ - 1]

\* the call behaved as move(): allowed iff the destination holds fewer than
\* two opponent checkers
AsNormalMove(r, p, point, pips) ==
    /\ r.ok <=> p.board_points[point - pips] > -2
    /\ r.ok => r.destination = point - pips
    /\ r = move(p, point, pips)

\* C28 as stated: when point - pips leaves the board the checker is borne
\* off unless a player checker sits on a strictly higher home point, in
\* which case no move is possible; when point - pips stays on the board the
\* call behaves as a normal move.
C28_OffAsStated ==
    OffCalled =>
        LET point == last.arg[1]
            pips == last.arg[2]
            r == plays[1]
        IN  IF point - pips < 0
            THEN IF HigherChecker(position, point)
                 THEN ~r.ok
                 ELSE BorneOff(r, position, point)
            ELSE AsNormalMove(r, position, point, pips)

\* C28: when point - pips leaves the board the checker is borne off if the
\* pips bear it off exactly (point - pips = -1) or no player checker sits on
\* a strictly higher home point, and otherwise no move is possible; when
\* point - pips stays on the board the call behaves as a normal move.
C28_Off ==
    OffCalled =>
        LET point == last.arg[1]
            pips == last.arg[2]
            r == plays[1]
        IN  IF point - pips < 0
            THEN IF point - pips = -1 \/ ~HigherChecker(position, point)
                 THEN BorneOff(r, position, point)
                 ELSE ~r.ok /\ r.position = position /\ r.destination = None
            ELSE AsNormalMove(r, position, point, pips)

\* a checker has been borne off exactly while another sits on a higher
\* home point
C28_Witness ==
    /\ OffCalled
    /\ last.arg[1] - last.arg[2] = -1
    /\ HigherChecker(position, last.arg[1])
    /\ plays[1].ok
    /\ plays[1].position.player_off = position.player_off + 1

\* a die larger than needed was refused because of a higher checker
C28_WitnessRefused ==
    /\ OffCalled
    /\ last.arg[1] - last.arg[2] < -1
    /\ HigherChecker(position, last.arg[1])
    /\ ~plays[1].ok

-----------------------------------------------------------------------------
(* Properties of swap_players() and end_turn(), checked under SpecEndTurn  *)

\* the checkers of the two sides on the points of p
PlayerOnBoard(p) ==
    SumRange([i \in 0..(POINTS - 1) |-> Max(p.board_points[i], 0)], 0, POINTS - 1)

OpponentOnBoard(p) ==
    SumRange([i \in 0..(POINTS - 1) |-> Max(0 - p.board_points[i], 0)], 0, POINTS - 1)

\* q holds for its opponent what p holds for its player, and the reverse
SidesSwapped(p, q) ==
    /\ PlayerOnBoard(p) = OpponentOnBoard(q) /\ OpponentOnBoard(p) = PlayerOnBoard(q)
    /\ p.player_bar = q.opponent_bar /\ p.opponent_bar = q.player_bar
    /\ p.player_off = q.opponent_off /\ p.opponent_off = q.player_off

\* C39: swap_players() is an involution that preserves checker counts:
\* swap_players(swap_players(p)) = p for every Position, the player's
\* on-board, bar and off totals of p are the opponent's totals of
\* swap_players(p) and the reverse (the board reversed in point order and
\* sign), and two consecutive end_turn() calls restore the original Position
\* and player.
C39_SwapPlayersInvolution ==
    [][last'.op = "end_turn"
         => /\ Position_swap_players(Position_swap_players(position)) = position
            /\ SidesSwapped(position, Position_swap_players(position))
            /\ position' = Position_swap_players(position)
            /\ \A i \in 0..(POINTS - 1) :
                  position'.board_points[i] = 0 - position.board_points[POINTS - 1 - i]
            /\ SidesSwapped(position, position')
            /\ steps' % 2 = 0
                  => /\ position' = plays'[1].position
                     /\ match'.player = plays'[1].match.player]_vars

\* end_turn() has been called twice on a Position with checkers of both
\* sides on the points and a player checker on the bar
C39_Witness ==
    /\ last.op = "end_turn"
    /\ last.prior = "end_turn"
    /\ steps = 2
    /\ position = plays[1].position
    /\ position.player_bar > 0 /\ position.opponent_bar = 0
    /\ PlayerOnBoard(position) > 0 /\ OpponentOnBoard(position) > 0
    /\ position.player_off # position.opponent_off

=============================================================================
